---- MODULE Spec2Model ----
(***************************************************************************)
(* A model of the Variable / Axis data model of geodata/base.py, of the    *)
(* plotting helpers of plotting/misc.py and of the gage station functions  *)
(* of datasets/WSC.py.                                                     *)
(*                                                                         *)
(* Objects live in a heap (object id -> record of the instance's fields).  *)
(* Every method of the two classes is an operator from a heap to a heap    *)
(* and an outcome ("ok" or the name of the exception raised); an exception *)
(* keeps every assignment the method made before raising it, as in Python. *)
(* Optional values (None) are sequences of length 0 or 1.                  *)
(***************************************************************************)
EXTENDS Integers, Sequences, FiniteSets, TLC

\* ------------------------------------------------------------------ bounds
MaxAxes == 1    \* Axis objects alive at once
MaxVars == 1    \* plain Variable objects alive at once
MaxNdim == 2    \* largest payload dimensionality
MaxDim == 2     \* largest size of a payload dimension / axis length
MaxBase == 1    \* payload contents: element i of a payload is base + i
MaxTicks == 2   \* longest tick list handed to logTicks
MaxPower == 2   \* largest |power| handed to logTicks
MaxConds == 2   \* most conditions handed to selectStations

VARIABLES heap, last, built

vars == <<heap, last, built>>

\* ------------------------------------------------------------ values
None == <<>>
Some(x) == <<x>>
IsNone(o) == o = <<>>
The(o) == o[1]

Min(a, b) == IF a < b THEN a ELSE b

\* The payloads' element type is numpy int8: in-place arithmetic wraps.
Int8 == [lo |-> -128, hi |-> 127]
Wrap(x) == ((x - Int8.lo) % (Int8.hi - Int8.lo + 1)) + Int8.lo

RECURSIVE Prod(_)
Prod(s) == IF s = <<>> THEN 1 ELSE Head(s) * Prod(Tail(s))

\* A numpy array: its shape, its elements in row-major order, and whether it
\* is a numpy.ma.MaskedArray.  Arange fills it with base, base+1, ...
Arange(shape, base, ma) ==
  [shape |-> shape, flat |-> [i \in 1..Prod(shape) |-> Wrap(base + i - 1)], ma |-> ma]

SeqsUpTo(S, n) == UNION {[1..k -> S] : k \in 0..n}
Shapes == SeqsUpTo(1..MaxDim, MaxNdim)
Payloads == {Arange(s, b, m) : s \in Shapes, b \in 0..MaxBase, m \in BOOLEAN}
Vectors == {p \in Payloads : Len(p.shape) = 1 /\ ~p.ma}

\* ma.array(data, mask=mask)
ma_array(data) == [data EXCEPT !.ma = TRUE]

\* np.linspace(1, n, n): the coordinate tuples (1, n, n) the tests use
linspace(n) == Arange(<<n>>, 1, FALSE)

AxisNames == {"x", "y"}
VarName == "test"
VarUnits == "none"

\* ------------------------------------------------------------ the heap
Ids == 1..(MaxAxes + MaxVars + MaxNdim)
AxisIds(h) == {i \in DOMAIN h : h[i].cls = "Axis"}
VarIds(h) == {i \in DOMAIN h : h[i].cls = "Variable"}
NewId(h) == Cardinality(DOMAIN h) + 1

\* The plot-attribute registry, atmdyn.properties.variablePlotatts: no entry
\* for the names used here.
variablePlotatts == [n \in {} |-> <<>>]

\* A fresh instance: the class attributes of Variable (and Axis) before
\* __init__ has run.
\* What a slot of an instance dictionary holds: a reference to an object of
\* the heap, or a plain value.
Ref(id) == [ref |-> id, plain |-> ""]
Plain(v) == [ref |-> 0, plain |-> v]

Blank(cls) ==
  [cls |-> cls, name |-> "", units |-> "", data |-> FALSE, axes |-> <<>>,
   data_array |-> None, shape |-> None, dtype |-> "", masked |-> FALSE,
   atts |-> [n \in {} |-> ""], plotatts |-> [n \in {} |-> ""],
   shortcuts |-> [n \in {} |-> Ref(0)], coord |-> None, len |-> 0]

\* The outcome of a call: the heap it leaves and "ok" or the exception raised.
\* Then(r, F) continues with F on the heap r left, unless r raised.
Ok(h) == [h |-> h, err |-> "ok"]
Raise(h, e) == [h |-> h, err |-> e]
Then(r, F(_)) == IF r.err = "ok" THEN F(r.h) ELSE r

\* ------------------------------------------------------------ Axis.__len__
Axis_len(h, self) == h[self].len

\* ------------------------------------------------------------ Axis.updateLength
\* (mutant: the length is recorded without the check against the payload)
Axis_updateLength_unchecked(h, self, length) == [h |-> [h EXCEPT ![self].len = length], err |-> "ok"]

Axis_updateLength(h, self, length) ==
  IF h[self].data
    THEN IF IsNone(h[self].shape) THEN Raise(h, "TypeError")
         ELSE IF The(h[self].shape) = <<>> THEN Raise(h, "IndexError")
         ELSE IF length = The(h[self].shape)[1] THEN Ok(h)
         ELSE Raise(h, "AssertionError")
    ELSE Ok([h EXCEPT ![self].len = length])

\* for ax,n in zip(axes,shape): ax.updateLength(n)
RECURSIVE zip_updateLength(_, _, _, _)
zip_updateLength(h, axes, shape, i) ==
  IF i > Min(Len(axes), Len(shape)) THEN Ok(h)
  ELSE Then(Axis_updateLength(h, axes[i], shape[i]),
            LAMBDA h2 : zip_updateLength(h2, axes, shape, i + 1))

\* ------------------------------------------------------------ Variable.load
\* mask is a BOOLEAN: whether a (true) mask argument was given.
\* (mutant: the loaded flag is not set)
Variable_load_unflagged(h, self, data, mask) ==
  LET arr == IF mask THEN ma_array(data) ELSE data
      h1 == [h EXCEPT ![self].data_array = Some(arr),
                      ![self].masked = IF arr.ma THEN TRUE ELSE @,
                      ![self].shape = Some(data.shape),
                      ![self].dtype = "int8"]
  IN IF Len(h1[self].axes) # Len(data.shape) THEN Raise(h1, "AssertionError")
     ELSE zip_updateLength(h1, h1[self].axes, data.shape, 1)

Variable_load(h, self, data, mask) ==
  LET arr == IF mask THEN ma_array(data) ELSE data
      h1 == [h EXCEPT ![self].data_array = Some(arr),
                      ![self].masked = IF arr.ma THEN TRUE ELSE @,
                      ![self].data = TRUE,
                      ![self].shape = Some(data.shape),
                      ![self].dtype = "int8"]
  IN IF Len(h1[self].axes) # Len(data.shape) THEN Raise(h1, "AssertionError")
     ELSE zip_updateLength(h1, h1[self].axes, data.shape, 1)

\* ------------------------------------------------------------ Variable.unload
\* (mutant: the shape is forgotten with the payload)
Variable_unload_reset(h, self) ==
  Ok([h EXCEPT ![self].data_array = None, ![self].data = FALSE, ![self].shape = None])

Variable_unload(h, self) ==
  Ok([h EXCEPT ![self].data_array = None, ![self].data = FALSE])

\* ------------------------------------------------------------ Axis.load
Axis_load(h, self, data, mask) ==
  Then(Variable_load(h, self, data, mask),
       LAMBDA h2 : Ok([h2 EXCEPT ![self].coord = h2[self].data_array,
                                 ![self].len = The(h2[self].data_array).shape[1]]))

\* ------------------------------------------------------------ Axis.unload
\* (mutant: unloading an Axis keeps its coordinate vector)
Axis_unload_kept(h, self) == Variable_unload(h, self)

Axis_unload(h, self) ==
  Then(Variable_unload(h, self), LAMBDA h2 : Ok([h2 EXCEPT ![self].coord = None]))

\* self.load(...) and self.unload(): the method of the object's class
load(h, self, data, mask) ==
  IF h[self].cls = "Axis" THEN Axis_load(h, self, data, mask)
  ELSE Variable_load(h, self, data, mask)

unload(h, self) ==
  IF h[self].cls = "Axis" THEN Axis_unload(h, self) ELSE Variable_unload(h, self)

\* ------------------------------------------------------------ Axis.updateCoord
\* A coord argument is None, or a record: kind "tuple" (a 1..3-tuple, here
\* (1, n, n)), "ndarray", "list" (a list, or a tuple of 4 or more elements)
\* or "other" (any other type), with the array it denotes.
Coord(kind, shape) == Some([kind |-> kind, arr |-> Arange(shape, 1, FALSE)])

CoordArgs ==
  {None}
  \cup {Coord("tuple", <<n>>) : n \in 1..MaxDim}
  \cup {Coord(k, s) : k \in {"ndarray", "list"}, s \in {<<n>> : n \in 1..MaxDim} \cup {<<1, 1>>}}
  \cup {Coord("other", <<1>>)}

Axis_updateCoord(h, self, coord) ==
  IF IsNone(coord) THEN unload(h, self)
  ELSE LET c == The(coord) IN
       IF \/ c.kind = "tuple"
          \/ c.kind = "ndarray" /\ Len(c.arr.shape) = 1
          \/ c.kind = "list"
         THEN load(h, self, c.arr, FALSE)
       ELSE Raise(h, "TypeError")

\* ------------------------------------------------------------ attribute access
\* The keys of self.__dict__: what __init__ stores there (for an Axis also
\* coord and len), and one shortcut per axis name.
Fields(cls) ==
  {"name", "units", "data_array", "data", "shape", "dtype", "masked", "axes", "atts", "plotatts"}
  \cup (IF cls = "Axis" THEN {"coord", "len"} ELSE {})
InstanceKeys(h, self) == Fields(h[self].cls) \cup DOMAIN h[self].shortcuts

\* What the classes define and __init__ does not store in the instance.
ClassAttrs(cls) ==
  {"load", "unload", "hasAxis", "axisIndex"}
  \cup (IF cls = "Axis" THEN {"updateCoord", "updateLength"} ELSE {})

\* The spelling of the names in use, and the slice name[i:j] of Python.
Spell(name) ==
  CASE name = "Comments" -> <<"C", "o", "m", "m", "e", "n", "t", "s">>
    [] name = "plotComments" -> <<"p", "l", "o", "t", "C", "o", "m", "m", "e", "n", "t", "s">>
    [] name = "plot" -> <<"p", "l", "o", "t">>
    [] name = "plo" -> <<"p", "l", "o">>
    [] name = "load" -> <<"l", "o", "a", "d">>
    [] name = "name" -> <<"n", "a", "m", "e">>
    [] name = "x" -> <<"x">>
    [] name = "y" -> <<"y">>
Slice(str, i, j) == SubSeq(str, i + 1, Min(j, Len(str)))

Put(f, k, v) == [n \in DOMAIN f \cup {k} |-> IF n = k THEN v ELSE f[n]]

\* (mutant: a new name always goes to atts)
Variable_setattr_atts(h, self, name, value) ==
  IF name \in DOMAIN h[self].shortcuts THEN Ok([h EXCEPT ![self].shortcuts[name] = Plain(value)])
  ELSE IF name \in Fields(h[self].cls) THEN Ok([h EXCEPT ![self][name] = value])
  ELSE IF name \in DOMAIN h[self].atts THEN Ok([h EXCEPT ![self].atts[name] = value])
  ELSE IF name \in DOMAIN h[self].plotatts THEN Ok([h EXCEPT ![self].plotatts[name] = value])
  ELSE Ok([h EXCEPT ![self].atts = Put(@, name, value)])

\* Variable.__setattr__
Variable_setattr(h, self, name, value) ==
  IF name \in DOMAIN h[self].shortcuts THEN Ok([h EXCEPT ![self].shortcuts[name] = Plain(value)])
  ELSE IF name \in Fields(h[self].cls) THEN Ok([h EXCEPT ![self][name] = value])
  ELSE IF name \in DOMAIN h[self].atts THEN Ok([h EXCEPT ![self].atts[name] = value])
  ELSE IF name \in DOMAIN h[self].plotatts THEN Ok([h EXCEPT ![self].plotatts[name] = value])
  ELSE IF Slice(Spell(name), 0, 4) = Spell("plot")
    THEN Ok([h EXCEPT ![self].plotatts = Put(@, name, value)])
  ELSE Ok([h EXCEPT ![self].atts = Put(@, name, value)])

\* The outcome of a read: the value, or the exception.
Value(v) == [err |-> "ok", v |-> Some(v)]
NoValue(e) == [err |-> e, v |-> None]
InstanceValue(h, self, name) ==
  IF name \in DOMAIN h[self].shortcuts THEN h[self].shortcuts[name] ELSE Plain(h[self][name])

\* Variable.__getattr__
Variable_getattr(h, self, name) ==
  IF name \in InstanceKeys(h, self) THEN Value(InstanceValue(h, self, name))
  ELSE IF name \in DOMAIN h[self].atts THEN Value(Plain(h[self].atts[name]))
  ELSE IF name \in DOMAIN h[self].plotatts THEN Value(Plain(h[self].plotatts[name]))
  ELSE NoValue("AttributeError")

\* The expression obj.name: the instance, then the class, and only then
\* __getattr__.
BoundMethod == "<bound method>"
getattr(h, self, name) ==
  IF name \in InstanceKeys(h, self) THEN Value(InstanceValue(h, self, name))
  ELSE IF name \in ClassAttrs(h[self].cls) THEN Value(Plain(BoundMethod))
  ELSE Variable_getattr(h, self, name)

\* ------------------------------------------------------------ in-place arithmetic
\* numpy's in-place operators on an int8 array with a scalar: element-wise,
\* wrapping around; the division of integers floors, and x / 0 is 0.
FloorDiv(a, b) ==
  IF b = 0 THEN 0
  ELSE IF b > 0 THEN a \div b
  ELSE (0 - a) \div (0 - b)

np_iadd(arr, a) == [arr EXCEPT !.flat = [i \in DOMAIN @ |-> Wrap(@[i] + a)]]
np_isub(arr, a) == [arr EXCEPT !.flat = [i \in DOMAIN @ |-> Wrap(@[i] - a)]]
np_imul(arr, a) == [arr EXCEPT !.flat = [i \in DOMAIN @ |-> Wrap(@[i] * a)]]
np_idiv(arr, a) == [arr EXCEPT !.flat = [i \in DOMAIN @ |-> Wrap(FloorDiv(@[i], a))]]

\* (mutant: without the check of the loaded flag nothing is raised)
Variable_iadd_unguarded(h, self, a) ==
  IF h[self].data THEN Ok([h EXCEPT ![self].data_array = Some(np_iadd(The(@), a))])
  ELSE Ok(h)

Variable_iadd(h, self, a) ==
  IF h[self].data THEN Ok([h EXCEPT ![self].data_array = Some(np_iadd(The(@), a))])
  ELSE Raise(h, "DataError")

\* (mutant: the subtraction adds)
Variable_isub_adds(h, self, a) ==
  IF h[self].data THEN Ok([h EXCEPT ![self].data_array = Some(np_iadd(The(@), a))])
  ELSE Raise(h, "DataError")

Variable_isub(h, self, a) ==
  IF h[self].data THEN Ok([h EXCEPT ![self].data_array = Some(np_isub(The(@), a))])
  ELSE Raise(h, "DataError")

Variable_imul(h, self, a) ==
  IF h[self].data THEN Ok([h EXCEPT ![self].data_array = Some(np_imul(The(@), a))])
  ELSE Raise(h, "DataError")

Variable_idiv(h, self, a) ==
  IF h[self].data THEN Ok([h EXCEPT ![self].data_array = Some(np_idiv(The(@), a))])
  ELSE Raise(h, "DataError")

\* ------------------------------------------------------------ Variable.hasAxis
\* An axis argument is ByName(name) or ByObject(id)
\* (an instance of Variable or of Axis); any other type is of kind "other".
ByName(n) == [kind |-> "str", name |-> n, obj |-> 0]
ByObject(a) == [kind |-> "obj", name |-> "", obj |-> a]

\* (mutant: the name of an axis is compared with the argument's own name)
Variable_hasAxis_named(h, self, axis) ==
  \E i \in 1..Len(h[self].axes) :
    h[h[self].axes[i]].name = (IF axis.kind = "obj" THEN h[axis.obj].name ELSE axis.name)

Variable_hasAxis(h, self, axis) ==
  IF axis.kind = "str" THEN \E i \in 1..Len(h[self].axes) : h[h[self].axes[i]].name = axis.name
  ELSE IF axis.kind = "obj" THEN \E i \in 1..Len(h[self].axes) : h[self].axes[i] = axis.obj
  ELSE FALSE

\* ------------------------------------------------------------ Variable.__contains__
Variable_contains(h, self, axis) == Variable_hasAxis(h, self, axis)

\* ------------------------------------------------------------ Variable.axisIndex
\* The index is 0-based; None when the loops find nothing.
First(S) == IF S = {} THEN None ELSE Some((CHOOSE i \in S : \A j \in S : i <= j) - 1)

Variable_axisIndex(h, self, axis) ==
  IF axis.kind = "str"
    THEN First({i \in 1..Len(h[self].axes) : h[h[self].axes[i]].name = axis.name})
  ELSE IF axis.kind = "obj"
    THEN First({i \in 1..Len(h[self].axes) : h[self].axes[i] = axis.obj})
  ELSE None

\* ------------------------------------------------------------ Variable.__getitem__
\* An index is a tuple of components, a name, an object, or something else:
\*   [kind |-> "tuple" | "str" | "obj" | "other", comps, name, obj]
\* and a component is an integer (in start), a slice or a float:
\*   [kind |-> "int" | "slice" | "float", start, stop, step]
\* with None for a bound or a step that is left out.
IntOf(i) == [kind |-> "int", start |-> Some(i), stop |-> None, step |-> None]
SliceOf(start, stop, step) == [kind |-> "slice", start |-> start, stop |-> stop, step |-> step]
Float == [kind |-> "float", start |-> None, stop |-> None, step |-> None]
Tuple(comps) == [kind |-> "tuple", comps |-> comps, name |-> "", obj |-> 0]

\* geodata.misc.checkIndex and isFloat: one flag per component of the index.
checkIndex(idx, floatOK) ==
  IF idx.kind # "tuple" THEN <<FALSE>>
  ELSE [k \in 1..Len(idx.comps) |->
          idx.comps[k].kind \in {"int", "slice"} \/ (floatOK /\ idx.comps[k].kind = "float")]
isFloat(idx) ==
  IF idx.kind # "tuple" THEN <<FALSE>>
  ELSE [k \in 1..Len(idx.comps) |-> idx.comps[k].kind = "float"]
all(flags) == \A k \in 1..Len(flags) : flags[k]
any(flags) == \E k \in 1..Len(flags) : flags[k]

\* slice.indices(n) of Python: the start, the stop and the step of a slice
\* along a dimension of length n.
Max(a, b) == IF a > b THEN a ELSE b
Adjust(bound, n, step, default) ==
  IF IsNone(bound) THEN default
  ELSE IF The(bound) < 0 THEN Max(The(bound) + n, IF step < 0 THEN 0 - 1 ELSE 0)
  ELSE Min(The(bound), IF step < 0 THEN n - 1 ELSE n)
indices(sl, n) ==
  LET step == IF IsNone(sl.step) THEN 1 ELSE The(sl.step)
  IN [start |-> Adjust(sl.start, n, step, IF step < 0 THEN n - 1 ELSE 0),
      stop |-> Adjust(sl.stop, n, step, IF step < 0 THEN 0 - 1 ELSE n),
      step |-> step]
Count(r) ==
  IF r.step > 0 THEN (IF r.stop > r.start THEN (r.stop - r.start - 1) \div r.step + 1 ELSE 0)
  ELSE (IF r.stop < r.start THEN (r.start - r.stop - 1) \div (0 - r.step) + 1 ELSE 0)
Steps(r) == [j \in 1..Count(r) |-> r.start + (j - 1) * r.step]

\* The positions (0-based) a component selects along a dimension of length n.
Selected(comp, n) ==
  IF comp.kind = "slice" THEN Steps(indices(comp, n))
  ELSE <<IF The(comp.start) < 0 THEN The(comp.start) + n ELSE The(comp.start)>>

\* ndarray.__getitem__ with integers and slices: an index beyond a dimension
\* or a tuple longer than the shape raises IndexError; dimensions the tuple
\* leaves out are taken whole; an integer removes its dimension.
Strides(shape) == [k \in 1..Len(shape) |-> Prod(SubSeq(shape, k + 1, Len(shape)))]
Padded(comps, ndim) ==
  [k \in 1..ndim |-> IF k <= Len(comps) THEN comps[k] ELSE SliceOf(None, None, None)]
RECURSIVE Gather(_, _, _, _, _)
RECURSIVE GatherAlong(_, _, _, _, _, _)
Gather(flat, sels, strides, k, offset) ==
  IF k > Len(sels) THEN <<flat[offset + 1]>>
  ELSE GatherAlong(flat, sels, strides, k, offset, 1)
GatherAlong(flat, sels, strides, k, offset, j) ==
  IF j > Len(sels[k]) THEN <<>>
  ELSE Gather(flat, sels, strides, k + 1, offset + sels[k][j] * strides[k])
       \o GatherAlong(flat, sels, strides, k, offset, j + 1)
SelectSeq2(seq, keep) ==
  LET F[i \in 0..Len(seq)] == IF i = 0 THEN <<>>
                              ELSE IF keep[i] THEN Append(F[i - 1], seq[i]) ELSE F[i - 1]
  IN F[Len(seq)]
Taken(arr, comps, sels) ==
  [shape |-> SelectSeq2([k \in 1..Len(sels) |-> Len(sels[k])],
                        [k \in 1..Len(sels) |-> comps[k].kind = "slice"]),
   flat |-> Gather(arr.flat, sels, Strides(arr.shape), 1, 0),
   ma |-> arr.ma]
Got(arr) == [err |-> "ok", arr |-> Some(arr), pos |-> None]
At(pos) == [err |-> "ok", arr |-> None, pos |-> pos]
Failed(e) == [err |-> e, arr |-> None, pos |-> None]
np_getitem(arr, comps) ==
  IF Len(comps) > Len(arr.shape) THEN Failed("IndexError")
  ELSE IF \E k \in 1..Len(comps) :
            /\ comps[k].kind = "int"
            /\ ~(0 - arr.shape[k] <= The(comps[k].start) /\ The(comps[k].start) < arr.shape[k])
    THEN Failed("IndexError")
  ELSE Got(Taken(arr, Padded(comps, Len(arr.shape)),
                 [k \in 1..Len(arr.shape) |->
                    Selected(Padded(comps, Len(arr.shape))[k], arr.shape[k])]))

\* (mutant: only the first component of the index reaches the array)
Variable_getitem_first(h, self, idx) ==
  IF all(checkIndex(idx, TRUE))
    THEN IF h[self].data
           THEN IF any(isFloat(idx)) THEN Failed("NotImplementedError")
                ELSE np_getitem(The(h[self].data_array), SubSeq(idx.comps, 1, Min(1, Len(idx.comps))))
         ELSE Failed("IndexError")
  ELSE IF idx.kind = "str" THEN At(Variable_axisIndex(h, self, ByName(idx.name)))
  ELSE IF idx.kind = "obj" /\ h[idx.obj].cls = "Axis"
    THEN At(Variable_axisIndex(h, self, ByObject(idx.obj)))
  ELSE Failed("IndexError")

Variable_getitem(h, self, idx) ==
  IF all(checkIndex(idx, TRUE))
    THEN IF h[self].data
           THEN IF any(isFloat(idx)) THEN Failed("NotImplementedError")
                ELSE np_getitem(The(h[self].data_array), idx.comps)
         ELSE Failed("IndexError")
  ELSE IF idx.kind = "str" THEN At(Variable_axisIndex(h, self, ByName(idx.name)))
  ELSE IF idx.kind = "obj" /\ h[idx.obj].cls = "Axis"
    THEN At(Variable_axisIndex(h, self, ByObject(idx.obj)))
  ELSE Failed("IndexError")

\* ------------------------------------------------------------ Variable.__init__
\* h holds the new instance self (Blank, or as Axis.__init__ prepared it).
\* axes is [kind |-> "None", v |-> <<>>], [kind |-> "objs", v |-> <<ids>>] or
\* [kind |-> "names", v |-> <<strings>>]; data, atts and plotatts are optional.
\* The constructor is modelled in three steps, so that Axis.__init__, which
\* the step for bare names uses, can run the other two.

\* basic input check, set basic variable and defaults
init_basic(h, self, name, units, axes, data) ==
  LET ldata == ~IsNone(data) IN
  IF ldata /\ axes.kind # "None" /\ Len(axes.v) # Len(The(data).shape)
    THEN Raise(h, "AssertionError")
  ELSE Ok([h EXCEPT ![self].name = name, ![self].units = units,
                    ![self].data_array = None, ![self].data = ldata,
                    ![self].shape = IF ldata THEN Some(The(data).shape) ELSE None,
                    ![self].dtype = IF ldata THEN "int8" ELSE "",
                    ![self].masked = FALSE])

\* figure out axes: all of them Axis instances
WithAxes(r, axes) == [h |-> r.h, err |-> r.err, axes |-> axes]
ThenAxes(r, F(_, _)) == IF r.err = "ok" THEN F(r.h, r.axes) ELSE Raise(r.h, r.err)

init_axes(h, self, axes, data) ==
  IF ~IsNone(data)
    THEN WithAxes(zip_updateLength(h, axes, The(data).shape, 1), axes)
  ELSE IF \A i \in 1..Len(axes) : Axis_len(h, axes[i]) # 0
    THEN [h |-> [h EXCEPT ![self].shape = Some([i \in 1..Len(axes) |-> Axis_len(h, axes[i])])],
          err |-> "ok", axes |-> axes]
  ELSE [h |-> h, err |-> "ok", axes |-> axes]

\* self.axes, the shortcuts to the axes, the data, atts and plotatts
init_rest(h, self, axes, data, mask, atts, plotatts) ==
  LET h3 == [h EXCEPT ![self].axes = axes,
                      ![self].shortcuts =
                         [n \in {h[axes[i]].name : i \in 1..Len(axes)} |->
                            LET last_i == CHOOSE i \in 1..Len(axes) :
                                  /\ h[axes[i]].name = n
                                  /\ \A j \in (i + 1)..Len(axes) : h[axes[j]].name # n
                            IN Ref(axes[last_i])]]
      name == h[self].name
      units == h[self].units
      a == IF IsNone(atts) THEN [n \in {"name", "units"} |-> IF n = "name" THEN name ELSE units]
           ELSE The(atts)
      p == IF ~IsNone(plotatts) THEN The(plotatts)
           ELSE IF name \in DOMAIN variablePlotatts THEN variablePlotatts[name]
           ELSE [n \in {"plotname", "plotunits", "plottitle"} |->
                   IF n = "plotunits" THEN units ELSE name]
  IN Then(IF ~IsNone(data) THEN load(h3, self, The(data), mask) ELSE Ok(h3),
          LAMBDA h4 : Ok([h4 EXCEPT ![self].atts = a, ![self].plotatts = p]))

\* ------------------------------------------------------------ Axis.__init__
\* super(Axis, self).__init__(axes=(self,), **varargs): no data
Axis_init(h, self, length, coord, name) ==
  Then(Then(init_basic([h EXCEPT ![self].coord = None, ![self].len = length],
                       self, name, "N/A", [kind |-> "objs", v |-> <<self>>], None),
            LAMBDA h1 : ThenAxes(init_axes(h1, self, <<self>>, None),
              LAMBDA h2, ax : init_rest(h2, self, ax, None, FALSE, None, None))),
       LAMBDA h3 : IF ~IsNone(coord) THEN Axis_updateCoord(h3, self, coord)
                   ELSE IF length > 0 THEN Axis_updateLength(h3, self, length)
                   ELSE Ok(h3))

\* axes = [Axis(name=ax) for ax in axes]
RECURSIVE synthesize(_, _, _)
synthesize(h, names, made) ==
  IF Len(made) = Len(names) THEN [h |-> h, err |-> "ok", axes |-> made]
  ELSE ThenAxes(WithAxes(Axis_init(h @@ (NewId(h) :> Blank("Axis")), NewId(h), 0, None,
                                   names[Len(made) + 1]),
                         Append(made, NewId(h))),
                LAMBDA h2, ax : synthesize(h2, names, ax))

Variable_init(h, self, name, units, axes, data, mask, atts, plotatts) ==
  Then(init_basic(h, self, name, units, axes, data),
       LAMBDA h1 :
         ThenAxes(IF axes.kind = "None" THEN WithAxes(Raise(h1, "KeyError"), <<>>)
                  ELSE IF axes.kind = "objs" \/ axes.v = <<>>
                    THEN init_axes(h1, self, axes.v, data)
                  ELSE IF ~IsNone(data) THEN WithAxes(Raise(h1, "TypeError"), <<>>)
                  ELSE synthesize(h1, axes.v, <<>>),
                  LAMBDA h2, ax : init_rest(h2, self, ax, data, mask, atts, plotatts)))

\* A constructor that raised leaves no object behind: the instance (and the
\* placeholder axes made for it) are dropped; what it did to the axes it was
\* given stays.
Drop(h, old) == [i \in DOMAIN old |-> h[i]]

\* ------------------------------------------------------------ state
\* last: the call made last, what it was applied to, how it ended and what it
\* returned.  built: what the fixture was built from (None where no fixture
\* is set up).
Call(op, self, arg, err, ret) ==
  [op |-> op, self |-> self, arg |-> arg, err |-> err, ret |-> ret]

\* The payloads of the life-cycle specification: one per shape.
LifePayloads == {Arange(s, 0, FALSE) : s \in Shapes}
DataArgs == {None} \cup {Some(p) : p \in LifePayloads}

\* The i-th Axis made is named by the i-th name.
NameOf(id) == IF id % 2 = 1 THEN "x" ELSE "y"

\* A constructor call ends: the new object id is in the heap, or nothing is.
Constructed(op, id, arg, r) ==
  /\ heap' = IF r.err = "ok" THEN r.h ELSE Drop(r.h, heap)
  /\ last' = Call(op, IF r.err = "ok" THEN id ELSE 0, arg, r.err, None)
  /\ UNCHANGED built

\* A method call on self ends.
Called(op, self, r) ==
  /\ heap' = r.h
  /\ last' = Call(op, self, None, r.err, None)
  /\ UNCHANGED built

Init ==
  /\ heap = <<>>
  /\ last = Call("start", 0, None, "ok", None)
  /\ built = None

\* x = Axis(name=..., length=..., coord=...)
NewAxis ==
  \E length \in 0..MaxDim, coord \in CoordArgs :
    /\ Cardinality(AxisIds(heap)) < MaxAxes
    /\ Constructed("Axis", NewId(heap), None,
                   Axis_init(heap @@ (NewId(heap) :> Blank("Axis")), NewId(heap),
                             length, coord, NameOf(NewId(heap))))

\* var = Variable(name=..., units=..., axes=(x, y), data=...)
NewVariable ==
  \E axes \in SeqsUpTo(AxisIds(heap), MaxNdim), data \in DataArgs :
    /\ Cardinality(VarIds(heap)) < MaxVars
    /\ Constructed("Variable", NewId(heap), None,
                   Variable_init(heap @@ (NewId(heap) :> Blank("Variable")), NewId(heap),
                                 VarName, VarUnits, [kind |-> "objs", v |-> axes],
                                 data, FALSE, None, None))

\* var = Variable(name=..., units=..., axes=('x', 'y'), data=...)
NewVariableNames ==
  \E names \in SeqsUpTo(AxisNames, MaxNdim) \ {<<>>}, data \in DataArgs :
    /\ Cardinality(VarIds(heap)) < MaxVars
    /\ IsNone(data) => Cardinality(AxisIds(heap)) + Len(names) <= MaxAxes
    /\ Constructed("VariableNames", NewId(heap), [names |-> names, data |-> data],
                   Variable_init(heap @@ (NewId(heap) :> Blank("Variable")), NewId(heap),
                                 VarName, VarUnits, [kind |-> "names", v |-> names],
                                 data, FALSE, None, None))

\* var = Variable(name=..., units=...)
NewVariableNoAxes ==
  /\ Cardinality(VarIds(heap)) < MaxVars
  /\ Constructed("VariableNoAxes", NewId(heap), None,
                 Variable_init(heap @@ (NewId(heap) :> Blank("Variable")), NewId(heap),
                               VarName, VarUnits, [kind |-> "None", v |-> <<>>],
                               None, FALSE, None, None))

\* obj.load(data)
Load ==
  \E self \in DOMAIN heap, data \in LifePayloads :
    Called("load", self, load(heap, self, data, FALSE))

\* obj.unload()
Unload ==
  \E self \in DOMAIN heap : Called("unload", self, unload(heap, self))

\* axis.updateCoord(coord)
UpdatedCoord(self, coord, r) ==
  /\ heap' = r.h
  /\ last' = Call("updateCoord", self, [coord |-> coord], r.err, None)
  /\ UNCHANGED built

UpdateCoord ==
  \E self \in AxisIds(heap), coord \in CoordArgs :
    UpdatedCoord(self, coord, Axis_updateCoord(heap, self, coord))

\* axis.updateLength(n); the call keeps the length asked for
UpdatedLength(self, n, r) ==
  /\ heap' = r.h
  /\ last' = Call("updateLength", self, [length |-> n], r.err, None)
  /\ UNCHANGED built

UpdateLength ==
  \E self \in AxisIds(heap), n \in 0..MaxDim :
    UpdatedLength(self, n, Axis_updateLength(heap, self, n))

Next ==
  \/ NewAxis
  \/ NewVariable
  \/ NewVariableNames
  \/ NewVariableNoAxes
  \/ Load
  \/ Unload
  \/ UpdateCoord
  \/ UpdateLength

Spec == Init /\ [][Next]_vars

\* ------------------------------------------------------------ the fixture
\* BaseTest.setUp, for every choice of its parameters: two Axis objects
\* (ids 1 and 2), each with a declared length or a coordinate tuple, and a
\* Variable (id 3) over a tuple of them, with or without a payload.  built
\* keeps what setUp passed: the payload, the length each Axis had when it was
\* constructed, and the last two calls of load / unload since.
AxisConfigs ==
  {[name |-> n, length |-> l, coord |-> None] : n \in AxisNames, l \in 0..MaxDim}
  \cup {[name |-> n, length |-> 0, coord |-> Coord("tuple", <<l>>)] : n \in AxisNames, l \in 1..MaxDim}

NewObj(h, cls) == h @@ (NewId(h) :> Blank(cls))

OneAxis(h, c) == Axis_init(NewObj(h, "Axis"), NewId(h), c.length, c.coord, c.name).h

SetUp(h, data, r) ==
  /\ r.err = "ok"
  /\ heap = r.h
  /\ last = Call("setUp", NewId(h), None, "ok", None)
  /\ built = Some([var |-> NewId(h), data |-> data,
                   lens |-> [a \in DOMAIN h |-> Axis_len(h, a)], trail |-> <<>>])

SetUpOver(h, axes, data) ==
  SetUp(h, data, Variable_init(NewObj(h, "Variable"), NewId(h), VarName, VarUnits,
                               [kind |-> "objs", v |-> axes], data, FALSE, None, None))

InitBuilt ==
  \E c1 \in AxisConfigs, c2 \in AxisConfigs, data \in DataArgs :
    \E axes \in SeqsUpTo({1, 2}, MaxNdim) :
      SetUpOver(OneAxis(OneAxis(<<>>, c1), c2), axes, data)

Var == The(built).var
Trail(op) == [The(built) EXCEPT !.trail = IF Len(@) < 2 THEN Append(@, op) ELSE <<@[2], op>>]

\* var.unload()
TestUnload ==
  /\ heap' = unload(heap, Var).h
  /\ last' = Call("unload", Var, None, "ok", None)
  /\ built' = Some(Trail("unload"))

LoadedBack(r) ==
  /\ heap' = r.h
  /\ last' = Call("load", Var, None, r.err, None)
  /\ built' = Some(Trail("load"))

\* var.load(self.data.copy())
TestLoad ==
  /\ ~IsNone(The(built).data)
  /\ LoadedBack(load(heap, Var, The(The(built).data), FALSE))

AxisArgs ==
  {ByName(n) : n \in AxisNames \cup {"z"}}
  \cup {ByObject(a) : a \in DOMAIN heap}

Asked(op, arg, ret) ==
  /\ last' = Call(op, Var, arg, "ok", ret)
  /\ UNCHANGED <<heap, built>>

\* ax in var
TestContains == \E axis \in AxisArgs : Asked("contains", axis, Variable_contains(heap, Var, axis))

\* var.axisIndex(ax)
TestAxisIndex == \E axis \in AxisArgs : Asked("axisIndex", axis, Variable_axisIndex(heap, Var, axis))

\* len(ax)
TestLen ==
  \E a \in AxisIds(heap) : Asked("len", ByObject(a), Axis_len(heap, a))

NextBuilt ==
  \/ TestUnload
  \/ TestLoad
  \/ TestContains
  \/ TestAxisIndex
  \/ TestLen

SpecBuilt == InitBuilt /\ [][NextBuilt]_vars

\* ------------------------------------------------------------ arithmetic on the fixture
\* BaseTest.testArithmetic after setUp, for every order of at most MaxOps
\* calls of +=, -=, *=, /=, unload and load on the fixture's Variable.  The
\* fixture is a Variable over one Axis per dimension of its payload, or
\* over both axes and without payload; the payloads start at 0 or near the
\* top of the element type.  built.trail keeps, for every call made, the
\* operator, the scalar and the payload the Variable held before.
MaxOps == 4  \* calls made on the fixture in one run
Scalars == {0, 2}
Bases == {0, Int8.hi - MaxDim * MaxDim}
ArithData == {None} \cup {Some(Arange(sh, b, FALSE)) : sh \in Shapes, b \in Bases}
AxesFor(data) ==
  IF IsNone(data) THEN <<1, 2>> ELSE [i \in 1..Len(The(data).shape) |-> i]

InitArith ==
  \E data \in ArithData :
    SetUpOver(OneAxis(OneAxis(<<>>, [name |-> "x", length |-> 0, coord |-> None]),
                      [name |-> "y", length |-> 0, coord |-> None]),
              AxesFor(data), data)

Did(op, c, r) ==
  /\ Len(The(built).trail) < MaxOps
  /\ heap' = r.h
  /\ last' = Call(op, Var, Some(c), r.err, IF r.err = "ok" THEN Some(Var) ELSE None)
  /\ built' = Some([The(built) EXCEPT
                      !.trail = Append(@, [op |-> op, c |-> c, before |-> heap[Var].data_array])])

\* var += c
TestIAdd == \E c \in Scalars : Did("iadd", c, Variable_iadd(heap, Var, c))

\* var -= c
TestISub == \E c \in Scalars : Did("isub", c, Variable_isub(heap, Var, c))

\* var *= c
TestIMul == \E c \in Scalars : Did("imul", c, Variable_imul(heap, Var, c))

\* var /= c
TestIDiv == \E c \in Scalars : Did("idiv", c, Variable_idiv(heap, Var, c))

Moved(op, r) ==
  /\ Len(The(built).trail) < MaxOps
  /\ heap' = r.h
  /\ last' = Call(op, Var, None, r.err, None)
  /\ built' = Some([The(built) EXCEPT
                      !.trail = Append(@, [op |-> op, c |-> 0, before |-> heap[Var].data_array])])

\* var.unload()
ArithUnload == Moved("unload", unload(heap, Var))

\* var.load(data), with the payload of setUp or, without one, a fresh payload
\* over both axes
ArithLoad ==
  Moved("load", load(heap, Var,
                     IF IsNone(The(built).data) THEN Arange(<<1, MaxDim>>, 0, FALSE)
                     ELSE The(The(built).data), FALSE))

NextArith ==
  \/ TestIAdd
  \/ TestISub
  \/ TestIMul
  \/ TestIDiv
  \/ ArithUnload
  \/ ArithLoad

SpecArith == InitArith /\ [][NextArith]_vars

\* ------------------------------------------------------------ attributes of the fixture
\* BaseTest.testAttributes after setUp: a Variable over one Axis named x, with
\* the attribute mappings of setUp, the defaults, or mappings that hold the
\* names the test writes already; then every order of writes and reads.
Text == "test"
AttsArgs ==
  {None,
   Some([n \in {"name", "units", "FillValue"} |->
           IF n = "name" THEN VarName ELSE IF n = "units" THEN VarUnits ELSE "-9999"]),
   Some([n \in {"plotComments"} |-> "old"])}
PlotattsArgs == {None, Some([n \in {"Comments"} |-> "old"])}
AttrNames == {"Comments", "plotComments", "plot", "plo", "load", "name", "x", "y"}

InitAttr ==
  \E atts \in AttsArgs, plotatts \in PlotattsArgs :
    SetUp(OneAxis(<<>>, [name |-> "x", length |-> 0, coord |-> None]), None,
          Variable_init(NewObj(OneAxis(<<>>, [name |-> "x", length |-> 0, coord |-> None]), "Variable"),
                        2, VarName, VarUnits, [kind |-> "objs", v |-> <<1>>],
                        None, FALSE, atts, plotatts))

\* var.<name> = 'test'
SetAttr ==
  \E name \in AttrNames :
    /\ heap' = Variable_setattr(heap, Var, name, Text).h
    /\ last' = Call("setattr", Var, Some([name |-> name, value |-> Text]), "ok", None)
    /\ UNCHANGED built

Read(name, r) ==
  /\ last' = Call("getattr", Var, Some([name |-> name]), r.err, r.v)
  /\ UNCHANGED <<heap, built>>

\* var.<name>
GetAttr == \E name \in AttrNames : Read(name, getattr(heap, Var, name))

NextAttr ==
  \/ SetAttr
  \/ GetAttr

SpecAttr == InitAttr /\ [][NextAttr]_vars

\* ------------------------------------------------------------ indexing the fixture
\* BaseTest.testIndexing after setUp: every index of at most MaxNdim
\* components, a name, an Axis, the Variable itself; with unload and load in
\* between.
Bounds == {None} \cup {Some(i) : i \in {0 - 1, 1}}
Components ==
  {IntOf(i) : i \in (0 - MaxDim)..(MaxDim - 1)}
  \cup {SliceOf(a, b, st) : a \in Bounds, b \in Bounds \ {Some(1)}, st \in {None, Some(0 - 1)}}
  \cup {Float}
IndexArgs ==
  {Tuple(comps) : comps \in SeqsUpTo(Components, MaxNdim)}
  \cup {[kind |-> "str", comps |-> <<>>, name |-> n, obj |-> 0] : n \in AxisNames}
  \cup {[kind |-> "obj", comps |-> <<>>, name |-> "", obj |-> o] : o \in DOMAIN heap}

InitIndex ==
  \E data \in DataArgs :
    SetUpOver(OneAxis(OneAxis(<<>>, [name |-> "x", length |-> 0, coord |-> None]),
                      [name |-> "y", length |-> 0, coord |-> None]),
              AxesFor(data), data)

Indexed(idx, r) ==
  /\ last' = Call("getitem", Var, Some(idx), r.err, Some([arr |-> r.arr, pos |-> r.pos]))
  /\ UNCHANGED <<heap, built>>

\* var[idx]
TestGetItem == \E idx \in IndexArgs : Indexed(idx, Variable_getitem(heap, Var, idx))

\* var.unload()
IndexUnload ==
  /\ heap' = unload(heap, Var).h
  /\ last' = Call("unload", Var, None, "ok", None)
  /\ UNCHANGED built

Reloaded(r) ==
  /\ heap' = r.h
  /\ last' = Call("load", Var, None, r.err, None)
  /\ UNCHANGED built

\* var.load(self.data.copy())
IndexLoad ==
  /\ ~IsNone(The(built).data)
  /\ Reloaded(load(heap, Var, The(The(built).data), FALSE))

NextIndex ==
  \/ TestGetItem
  \/ IndexUnload
  \/ IndexLoad

SpecIndex == InitIndex /\ [][NextIndex]_vars

\* ------------------------------------------------------------ plotting.misc.logTicks
\* Strings built by logTicks are sequences of characters.
Digits == <<"0", "1", "2", "3", "4", "5", "6", "7", "8", "9">>

RECURSIVE digits(_)
digits(n) ==
  IF n < 10 THEN <<Digits[n + 1]>>
  ELSE digits(n \div 10) \o <<Digits[(n % 10) + 1]>>

\* str(i) of an int
str(i) == IF i < 0 THEN <<"-">> \o digits(0 - i) ELSE digits(i)

\* s * n of a str and an int
Times(s, n) == IF n <= 0 THEN <<>> ELSE [k \in 1..n |-> s]

\* ['']*8
Blanks == [k \in 1..8 |-> <<>>]

\* the arguments: each carries the type isinstance() looks at
IntArg(i) == [kind |-> "int", v |-> i]
OtherArg == [kind |-> "other", v |-> 0]
NoneArg == [kind |-> "None", v |-> 0]
ListArg(elts) == [kind |-> "list", v |-> elts]
NotAList == [kind |-> "other", v |-> <<>>]

\* 10 ** n
RECURSIVE Pow10(_)
Pow10(n) == IF n = 0 THEN 1 ELSE 10 * Pow10(n - 1)

\* int(np.round(np.log(base)/np.log(10))) of a whole number base >= 1:
\* the p with p - 1/2 <= log10(base) < p + 1/2
RoundLog10(base) ==
  CHOOSE p \in 0..(base + 1) :
    /\ p = 0 \/ Pow10(2 * p - 1) <= base * base
    /\ base * base < Pow10(2 * p + 1)

TickDone(strtck) == [err |-> "ok", ret |-> strtck]
TickRaise(e) == [err |-> e, ret |-> <<>>]

\* for i in ticks: ... (the k-th pass of the loop and the passes after it)
RECURSIVE logTicks_loop(_, _, _, _)
logTicks_loop(ticks, k, power, strtck) ==
  IF k > Len(ticks) THEN TickDone(strtck)
  ELSE LET i == ticks[k]
           idx == i.v - 2
           \* strtck[idx] of a list of 8: a negative idx counts from the end
           pos == IF idx < 0 THEN idx + 8 + 1 ELSE idx + 1
           named == IF \E j \in 1..Len(ticks) : ticks[j] = i THEN str(i.v)
                    ELSE strtck[pos]
           label == IF power > 0 THEN named \o Times("0", power)
                    ELSE IF power < 0
                      THEN <<"0", ".">> \o Times("0", 0 - 1 - power) \o named
                      ELSE named
       IN IF i.kind # "int" \/ i.v >= 8 THEN TickRaise("ValueError")
          ELSE IF pos \notin 1..8 THEN TickRaise("IndexError")
          ELSE logTicks_loop(ticks, k + 1, power, [strtck EXCEPT ![pos] = label])

logTicks(ticks, base, power) ==
  IF ticks.kind # "list" THEN TickRaise("TypeError")
  ELSE IF base.kind = "other" THEN TickRaise("TypeError")
  ELSE LET pw == IF base.kind = "None" THEN power
                 ELSE IntArg(RoundLog10(base.v))
       IN IF pw.kind # "int" THEN TickRaise("TypeError")
          ELSE logTicks_loop(ticks.v, 1, pw.v, Blanks)

\* [2,4,6] and [2,3,5,7]
WaveNumbers == ListArg(<<IntArg(2), IntArg(4), IntArg(6)>>)
PressureLevels == ListArg(<<IntArg(2), IntArg(3), IntArg(5), IntArg(7)>>)

nTicks(base, power) == logTicks(WaveNumbers, base, power)
pTicks(base, power) == logTicks(PressureLevels, base, power)

\* ------------------------------------------------------------ calls of logTicks
\* Every call of logTicks, nTicks and pTicks with a tick list of at most
\* MaxTicks elements and a power of at most MaxPower in size.
TickValues == {0 - 7, 0 - 6, 0 - 1, 0, 1, 2, 3, 7, 8, 9, 10}
TickElts == {IntArg(i) : i \in TickValues} \cup {OtherArg}
TickLists == {ListArg(l) : l \in SeqsUpTo(TickElts, MaxTicks)} \cup {NotAList}
BaseArgs == {NoneArg, OtherArg} \cup {IntArg(b) : b \in {1, 3, 4, 10, 100}}
PowerArgs == {IntArg(p) : p \in (0 - MaxPower)..MaxPower} \cup {OtherArg}

TickCall(ticks, base, power) == [ticks |-> ticks, base |-> base, power |-> power]

\* The arguments of the call are drawn first; built holds them.
InitTicks ==
  /\ heap = <<>>
  /\ last = Call("start", 0, None, "ok", None)
  /\ \E t \in TickLists, b \in BaseArgs, p \in PowerArgs :
       built = Some(TickCall(t, b, p))

Ticked(op, arg, r) ==
  /\ last' = Call(op, 0, Some(arg), r.err, r.ret)
  /\ UNCHANGED <<heap, built>>

\* logTicks(ticks, base=..., power=...)
LogTicks ==
  Ticked("logTicks", The(built),
         logTicks(The(built).ticks, The(built).base, The(built).power))

\* nTicks(base=..., power=...)
NTicks ==
  Ticked("nTicks", TickCall(WaveNumbers, The(built).base, The(built).power),
         nTicks(The(built).base, The(built).power))

\* pTicks(base=..., power=...)
PTicks ==
  Ticked("pTicks", TickCall(PressureLevels, The(built).base, The(built).power),
         pTicks(The(built).base, The(built).power))

NextTicks == LogTicks \/ NTicks \/ PTicks

SpecTicks == InitTicks /\ [][NextTicks]_vars

\* ------------------------------------------------------------ plotting.misc.getPlotValues
\* A variable as getPlotValues reads it: var.plot (None or the plot
\* attributes, with or without an offset), var.atts and the values.
\* var.units is the raw unit, atts['units'].
PlotAtts(name, units, scalefactor, offset) ==
  [name |-> name, units |-> units, scalefactor |-> scalefactor, offset |-> offset]
PlotVar(plot, atts, values) == [plot |-> plot, atts |-> atts, values |-> values]

\* var.getArray(unmask=True, copy=True): the values, as a plain array
getArray(var) == var.values

\* val * c and val + c, element by element
Scaled(val, c) == [val EXCEPT !.flat = [k \in 1..Len(val.flat) |-> val.flat[k] * c]]
Shifted(val, c) == [val EXCEPT !.flat = [k \in 1..Len(val.flat) |-> val.flat[k] + c]]

\* val.squeeze(): the dimensions of length 1 are dropped
squeeze(val) == [val EXCEPT !.shape = SelectSeq(val.shape, LAMBDA n : n # 1)]

\* np.diff(val) of a vector
diff(flat) == [k \in 1..(Len(flat) - 1) |-> flat[k + 1] - flat[k]]

\* np.concatenate of three vectors
concatenate(a, b, c) == [shape |-> <<Len(a) + Len(b) + Len(c)>>, flat |-> a \o b \o c]

\* if lperi: ... (on a vector of two or more values)
periodic(val, laxis) ==
  LET n == Len(val.flat)
      delta == diff(val.flat)
  IN IF laxis
       THEN concatenate(<<val.flat[1] - delta[1]>>, val.flat,
                        <<val.flat[n] + delta[n - 1]>>)
       ELSE concatenate(<<val.flat[n]>>, val.flat, <<val.flat[1]>>)

PlotDone(val, units, name) ==
  [err |-> "ok", ret |-> [val |-> val, units |-> units, name |-> name]]
PlotRaise(e) ==
  [err |-> e, ret |-> [val |-> [shape |-> <<>>, flat |-> <<>>], units |-> "", name |-> ""]]

\* the part of getPlotValues after the name check
getPlotValues_rest(var, varname, checkunits, lperi, laxis) ==
  LET val0 == getArray(var)
      val1 == IF ~IsNone(var.plot) /\ var.atts.units # The(var.plot).units
                THEN Scaled(val0, The(var.plot).scalefactor) ELSE val0
      varunits == IF ~IsNone(var.plot) THEN The(var.plot).units ELSE var.atts.units
      val2 == IF ~IsNone(var.plot) /\ ~IsNone(The(var.plot).offset)
                THEN Shifted(val1, The(The(var.plot).offset)) ELSE val1
      val3 == squeeze(val2)
  IN IF ~IsNone(checkunits) /\ varunits # The(checkunits) THEN PlotRaise("VariableError")
     ELSE PlotDone(IF lperi THEN periodic(val3, laxis) ELSE val3, varunits, varname)

\* getPlotValues with the name checked for every variable
getPlotValues_checked(var, checkunits, checkname, lperi, laxis) ==
  LET varname == IF ~IsNone(var.plot) THEN The(var.plot).name ELSE var.atts.name
  IN IF ~IsNone(checkname) /\ varname # The(checkname)
       THEN PlotRaise("VariableError")
       ELSE getPlotValues_rest(var, varname, checkunits, lperi, laxis)

\* getPlotValues(var, checkunits=..., checkname=..., lperi=..., laxis=...)
getPlotValues(var, checkunits, checkname, lperi, laxis) ==
  IF ~IsNone(var.plot)
    THEN IF ~IsNone(checkname) /\ The(var.plot).name # The(checkname)
           THEN PlotRaise("VariableError")
           ELSE getPlotValues_rest(var, The(var.plot).name, checkunits, lperi, laxis)
    ELSE getPlotValues_rest(var, var.atts.name, checkunits, lperi, laxis)

\* ------------------------------------------------------------ calls of getPlotValues
\* Every call with a variable named "T2" in "K" or "C", with or without plot
\* attributes, and with each check absent, matching or not.  lsmooth stays
\* False.
PlotLabels == {"T2", "Temp"}
PlotUnits == {"K", "C"}
PlotOffsets == {None, Some(1)}
PlotArgs ==
  {None} \cup {Some(PlotAtts(n, u, 2, o)) :
                 n \in PlotLabels, u \in PlotUnits, o \in PlotOffsets}
PlotValues == {[shape |-> s, flat |-> <<1, 3>>] : s \in {<<2>>, <<1, 2>>}}
PlotVars ==
  {PlotVar(p, [name |-> "T2", units |-> u], v) :
     p \in PlotArgs, u \in PlotUnits, v \in PlotValues}
CheckArgs(S) == {None} \cup {Some(s) : s \in S}

PlotCall(var, checkunits, checkname, lperi, laxis) ==
  [var |-> var, checkunits |-> checkunits, checkname |-> checkname,
   lperi |-> lperi, laxis |-> laxis]

InitPlot ==
  /\ heap = <<>>
  /\ last = Call("start", 0, None, "ok", None)
  /\ \E var \in PlotVars, cu \in CheckArgs(PlotUnits), cn \in CheckArgs(PlotLabels),
        lperi \in BOOLEAN, laxis \in BOOLEAN :
       built = Some(PlotCall(var, cu, cn, lperi, laxis))

GetPlotValues ==
  LET a == The(built)
      r == getPlotValues(a.var, a.checkunits, a.checkname, a.lperi, a.laxis)
  IN /\ last.op = "start"
     /\ last' = Call("getPlotValues", 0, built, r.err, Some(r.ret))
     /\ UNCHANGED <<heap, built>>

NextPlot == GetPlotValues

SpecPlot == InitPlot /\ [][NextPlot]_vars

\* ------------------------------------------------------------ datasets.WSC.selectStations
\* A condition key is a str, a sequence of characters.
Uppers == <<"A", "B", "C", "D", "E", "F", "G", "H", "I", "J", "K", "L", "M", "N", "O", "P", "Q", "R", "S", "T", "U", "V", "W", "X", "Y", "Z">>
Lowers == <<"a", "b", "c", "d", "e", "f", "g", "h", "i", "j", "k", "l", "m", "n", "o", "p", "q", "r", "s", "t", "u", "v", "w", "x", "y", "z">>

\* the key as it was given
lower_kept(key) == key

\* key.lower()
lower(key) ==
  [k \in 1..Len(key) |->
     IF \E c \in 1..26 : Uppers[c] = key[k]
       THEN Lowers[CHOOSE c \in 1..26 : Uppers[c] = key[k]]
       ELSE key[k]]

\* The value of a condition: a bool, a number or something else (a str).
BoolVal(b) == [kind |-> "bool", b |-> b, n |-> 0]
NumVal(n) == [kind |-> "num", b |-> FALSE, n |-> n]
StrVal == [kind |-> "str", b |-> FALSE, n |-> 0]

\* bool(val); the str is not empty
bool(val) ==
  IF val.kind = "bool" THEN val.b ELSE IF val.kind = "num" THEN val.n # 0 ELSE TRUE

\* geodata.misc.isNumber
isNumber(val) == val.kind = "num"

\* val*1e6
KmToM == 1000000

\* functools.partial(test, val)
Partial(fn, val) == [fn |-> fn, val |-> val]

test_encl(val, index, dataset) == dataset.shp_encl[index] = val.b
test_full(val, index, dataset) == dataset.shp_full[index] = val.b
test_empty(val, index, dataset) == dataset.shp_empty[index] = val.b
test_mina(val, index, dataset) == dataset.shp_area[index] >= val.n
test_maxa(val, index, dataset) == dataset.shp_area[index] <= val.n

\* test(index, dataset, axis) of a partial
RunTest(test, index, dataset) ==
  CASE test.fn = "test_encl" -> test_encl(test.val, index, dataset)
    [] test.fn = "test_full" -> test_full(test.val, index, dataset)
    [] test.fn = "test_empty" -> test_empty(test.val, index, dataset)
    [] test.fn = "test_mina" -> test_mina(test.val, index, dataset)
    [] test.fn = "test_maxa" -> test_maxa(test.val, index, dataset)

\* a suite that one passing test satisfies
apply_test_suite_any(tests, index, dataset) ==
  \E k \in 1..Len(tests) : RunTest(tests[k], index, dataset)

apply_test_suite(tests, index, dataset) ==
  \A k \in 1..Len(tests) : RunTest(tests[k], index, dataset)

\* for key,val in kwcond.iteritems(): ... (the k-th condition and those after)
RECURSIVE selectStations_tests(_, _, _)
selectStations_tests(kwcond, k, tests) ==
  IF k > Len(kwcond) THEN [err |-> "ok", tests |-> tests]
  ELSE LET key == lower(kwcond[k].key)
           val == kwcond[k].val
           more(t) == selectStations_tests(kwcond, k + 1, Append(tests, t))
       IN IF Slice(key, 0, 4) = <<"e", "n", "c", "l">> \/ Slice(key, 0, 4) = <<"c", "o", "n", "t">>
            THEN more(Partial("test_encl", BoolVal(bool(val))))
          ELSE IF key = <<"f", "u", "l", "l">>
            THEN more(Partial("test_full", BoolVal(bool(val))))
          ELSE IF Slice(key, 0, 4) = <<"e", "m", "p", "t">>
            THEN more(Partial("test_empty", BoolVal(bool(val))))
          ELSE IF key = <<"m", "i", "n", "_", "a", "r", "e", "a">>
            THEN IF ~isNumber(val) THEN [err |-> "TypeError", tests |-> tests]
                 ELSE more(Partial("test_mina", NumVal(val.n * KmToM)))
          ELSE IF key = <<"m", "a", "x", "_", "a", "r", "e", "a">>
            THEN IF ~isNumber(val) THEN [err |-> "TypeError", tests |-> tests]
                 ELSE more(Partial("test_maxa", NumVal(val.n * KmToM)))
          ELSE [err |-> "NotImplementedError", tests |-> tests]

\* The stations of a dataset at the positions in keep, in order.
Stations(dataset, keep) ==
  LET pick(col) == SelectSeq([i \in 1..Len(col) |-> [i |-> i, v |-> col[i]]],
                             LAMBDA e : e.i \in keep)
      vals(col) == [k \in 1..Len(pick(col)) |-> pick(col)[k].v]
  IN [dataset EXCEPT !.shp_encl = vals(@), !.shp_full = vals(@),
                     !.shp_empty = vals(@), !.shp_area = vals(@),
                     !.station = vals(@)]

\* datasets.common.selectElements on one dataset: the stations for which
\* testFct holds are kept (all, for testFct None), in the dataset itself
\* when linplace.
selectElements(h, id, testFct, linplace) ==
  LET dataset == h[id]
      keep == {i \in 1..Len(dataset.station) :
                 IsNone(testFct) \/ apply_test_suite(The(testFct), i, dataset)}
      sliced == Stations(dataset, keep)
  IN [h |-> IF linplace THEN [h EXCEPT ![id] = sliced] ELSE h,
      err |-> "ok",
      ret |-> [called |-> TRUE, testFct |-> testFct, datasets |-> <<sliced>>]]

\* selectStations([dataset], linplace=..., **kwcond)
selectStations(h, id, linplace, kwcond) ==
  LET h1 == IF h[id].netcdf THEN [h EXCEPT ![id].data = TRUE] ELSE h
      t == selectStations_tests(kwcond, 1, <<>>)
  IN IF t.err # "ok"
       THEN [h |-> h1, err |-> t.err,
             ret |-> [called |-> FALSE, testFct |-> None, datasets |-> <<>>]]
       ELSE selectElements(h1, id, IF Len(t.tests) > 0 THEN Some(t.tests) ELSE None,
                           linplace)

\* ------------------------------------------------------------ calls of selectStations
\* One dataset of six stations, and every call with at most MaxConds
\* conditions under different keys.
EnclKeys == {<<"e", "n", "c", "l">>, <<"E", "n", "c", "l", "o", "s", "e", "d">>, <<"C", "O", "N", "T">>}
FullKeys == {<<"f", "u", "l", "l">>, <<"F", "U", "L", "L">>}
EmptyKeys == {<<"e", "m", "p", "t", "y">>, <<"E", "m", "p", "t">>}
MinAreaKeys == {<<"m", "i", "n", "_", "a", "r", "e", "a">>, <<"M", "i", "n", "_", "A", "r", "e", "a">>}
MaxAreaKeys == {<<"m", "a", "x", "_", "a", "r", "e", "a">>}
OtherKeys == {<<"f", "u", "l", "l", "y">>, <<"e", "n", "c">>, <<"a", "r", "e", "a">>, <<"m", "i", "n", "_", "a", "r", "e", "a", "s">>}
CondKeys == EnclKeys \cup FullKeys \cup EmptyKeys \cup MinAreaKeys \cup MaxAreaKeys \cup OtherKeys
CondVals == {BoolVal(TRUE), BoolVal(FALSE), NumVal(100), NumVal(500), StrVal}
Conds == {[key |-> k, val |-> v] : k \in CondKeys, v \in CondVals}
KwConds ==
  {c \in SeqsUpTo(Conds, MaxConds) :
     \A i, j \in 1..Len(c) : i # j => c[i].key # c[j].key}

\* shp_area is in m^2
StationData(netcdf) ==
  [station |-> <<1, 2, 3, 4, 5, 6>>,
   shp_encl |-> <<TRUE, TRUE, FALSE, FALSE, TRUE, TRUE>>,
   shp_full |-> <<FALSE, FALSE, TRUE, FALSE, FALSE, FALSE>>,
   shp_empty |-> <<FALSE, FALSE, FALSE, TRUE, FALSE, FALSE>>,
   shp_area |-> <<50 * KmToM, 100 * KmToM, 300 * KmToM, 500 * KmToM, 600 * KmToM, 300>>,
   netcdf |-> netcdf, data |-> ~netcdf]

InitSelect ==
  /\ last = Call("start", 0, None, "ok", None)
  /\ \E netcdf \in BOOLEAN, kwcond \in KwConds, linplace \in BOOLEAN :
       /\ heap = <<StationData(netcdf)>>
       /\ built = Some([kwcond |-> kwcond, linplace |-> linplace,
                        dataset |-> StationData(netcdf)])

SelectStations ==
  LET r == selectStations(heap, 1, The(built).linplace, The(built).kwcond)
  IN /\ last.op = "start"
     /\ heap' = r.h
     /\ last' = Call("selectStations", 1, None, r.err, Some(r.ret))
     /\ UNCHANGED built

NextSelect == SelectStations

SpecSelect == InitSelect /\ [][NextSelect]_vars

\* ------------------------------------------------------------ datasets.WSC.GageStation
\* A name is a str, a sequence of characters; an extension is one more
\* element of the sequence.
meta_ext == <<"_Metadata.csv">>
monthly_ext == <<"_Monthly.csv">>

\* river in name
Within(river, name) ==
  \E i \in 1..(Len(name) + 1) :
    /\ i + Len(river) - 1 <= Len(name)
    /\ SubSeq(name, i, i + Len(river) - 1) = river

\* '{:s}_{:s}'.format(river,name)
Joined(river, name) == river \o <<"_">> \o name

\* '{:s}/Basins/{:s}/'.format(root_folder,basin)
BasinFolder(basin) == <<"root", "/Basins/">> \o basin \o <<"/">>

\* GageStation(basin=..., river=..., name=..., folder=...) where files are
\* the files of the folder; meta_file and monthly_file are None in the class.
GageStation_init(basin, river, name, folder, files) ==
  IF IsNone(name) THEN [err |-> "ArgumentError", h |-> <<>>]
  ELSE LET dir == IF IsNone(folder) THEN BasinFolder(The(basin)) ELSE The(folder)
           nm == IF ~IsNone(river) /\ ~Within(The(river), The(name))
                   THEN Joined(The(river), The(name)) ELSE The(name)
           o0 == [folder |-> dir, name |-> nm, meta_file |-> None, monthly_file |-> None]
           o1 == IF (nm \o meta_ext) \in files
                   THEN [o0 EXCEPT !.meta_file = Some(nm \o meta_ext)] ELSE o0
           o2 == IF (nm \o monthly_ext) \in files
                   THEN [o1 EXCEPT !.meta_file = Some(nm \o monthly_ext)] ELSE o1
       IN [err |-> "ok", h |-> <<o2>>]

\* ------------------------------------------------------------ GageStation objects made
\* Every station named "E" or "A_E", on the river "A" or on none, in a folder
\* holding any of the files the station could have.
Rivers == {None, Some(<<"A">>)}
StationNames == {<<"E">>, <<"A", "_", "E">>}
StationFiles == {n \o e : n \in StationNames, e \in {meta_ext, monthly_ext}}
Folders == {None, Some(<<"data", "/">>)}

InitStation ==
  /\ heap = <<>>
  /\ last = Call("start", 0, None, "ok", None)
  /\ \E river \in Rivers, name \in {None} \cup {Some(n) : n \in StationNames},
        folder \in Folders, files \in SUBSET StationFiles :
       built = Some([basin |-> Some(<<"B">>), river |-> river, name |-> name,
                     folder |-> folder, files |-> files])

NewGageStation ==
  LET a == The(built)
      r == GageStation_init(a.basin, a.river, a.name, a.folder, a.files)
  IN /\ last.op = "start"
     /\ heap' = r.h
     /\ last' = Call("GageStation", Len(r.h), None, r.err, None)
     /\ UNCHANGED built

NextStation == NewGageStation

SpecStation == InitStation /\ [][NextStation]_vars

\* ------------------------------------------------------------ datasets.WSC.loadGageStation
\* The names bound in the module datasets.WSC: what it imports and what it
\* defines.
WSC_names ==
  {"np", "os", "functools", "deepcopy", "selectElements", "data_root", "DatasetNetCDF",
   "FileError", "isNumber", "ArgumentError", "nf", "Shape", "ShapeSet", "StationDataset",
   "Variable", "Axis", "OrderedDict", "dataset_name", "root_folder", "variable_attributes",
   "variable_list", "agg_varatts", "varname", "varatts", "tmpatts", "GageStationError",
   "Basin", "BasinSet", "GageStation", "loadGageStation", "test_encl", "test_full",
   "test_empty", "test_mina", "test_maxa", "apply_test_suite", "selectStations"}

VarAtts(name, units) == [name |-> name, units |-> units]

variable_attributes ==
  [runoff |-> VarAtts("runoff", "kg/m^2/s"), roff_std |-> VarAtts("roff_std", "kg/m^2/s"),
   roff_sem |-> VarAtts("roff_sem", "kg/m^2/s"), roff_max |-> VarAtts("roff_max", "kg/m^2/s"),
   roff_min |-> VarAtts("roff_min", "kg/m^2/s"), discharge |-> VarAtts("discharge", "kg/s"),
   discstd |-> VarAtts("StdDisc", "kg/s"), discsem |-> VarAtts("SEMDisc", "kg/s"),
   discmax |-> VarAtts("MaxDisc", "kg/s"), discmin |-> VarAtts("MinDisc", "kg/s"),
   level |-> VarAtts("level", "m")]

agg_varatts ==
  [varname \in DOMAIN variable_attributes |->
     LET tmpatts == variable_attributes[varname]
     IN IF tmpatts.units = "kg/m^2/s" THEN [tmpatts EXCEPT !.name = "runoff"]
        ELSE IF tmpatts.units = "kg/s" THEN [tmpatts EXCEPT !.name = "discharge"]
        ELSE tmpatts]

\* The statistics of climatology mode, in the order they are loaded: the
\* selector and the keys of the discharge and the runoff attributes.
Statistics ==
  <<[sel |-> <<"m", "e", "a", "n">>, disc |-> "discharge", roff |-> "runoff"],
    [sel |-> <<"s", "t", "d">>, disc |-> "discstd", roff |-> "roff_std"],
    [sel |-> <<"s", "e", "m">>, disc |-> "discsem", roff |-> "roff_sem"],
    [sel |-> <<"m", "a", "x">>, disc |-> "discmax", roff |-> "roff_max"],
    [sel |-> <<"m", "i", "n">>, disc |-> "discmin", roff |-> "roff_min"]>>

\* if aggregation is None or aggregation.lower() == ...: the two Variables
\* added for the k-th statistic
StatPair(aggregation, varatts, k) ==
  IF IsNone(aggregation) \/ lower(The(aggregation)) = Statistics[k].sel
    THEN <<varatts[Statistics[k].disc], varatts[Statistics[k].roff]>>
    ELSE <<>>

\* the Variables of the dataset in climatology mode
Climatology(aggregation, varatts) ==
  StatPair(aggregation, varatts, 1) \o StatPair(aggregation, varatts, 2)
    \o StatPair(aggregation, varatts, 3) \o StatPair(aggregation, varatts, 4)
    \o StatPair(aggregation, varatts, 5)

\* basin: None, the name of a basin or a BasinInfo
NoBasin == [kind |-> "None", name |-> "", folder |-> "", maingage |-> "", stationfiles |-> {}]
BasinName(name) == [NoBasin EXCEPT !.kind = "str", !.name = name]
BasinInfoOf(name) ==
  [kind |-> "BasinInfo", name |-> name, folder |-> "Basins/" \o name,
   maingage |-> "Gage", stationfiles |-> {"Gage"}]

GageDone(vars_) == [err |-> "ok", ret |-> vars_]
GageRaise(e) == [err |-> e, ret |-> <<>>]

\* loadGageStation from 'test folder and filename' on
loadGageStation_rest(a, basin, names) ==
  LET isinfo == basin.kind = "BasinInfo"
      folder == IF isinfo /\ IsNone(a.folder) THEN Some(basin.folder) ELSE a.folder
      station == IF isinfo /\ IsNone(a.station) THEN Some(basin.maingage) ELSE a.station
      known == isinfo /\ The(station) \in basin.stationfiles
      filename == IF known THEN Some(The(station) \o "_Monthly.csv") ELSE a.filename
      varatts == IF IsNone(a.aggregation) THEN variable_attributes ELSE agg_varatts
  IN IF isinfo /\ ~known /\ IsNone(a.filename) THEN GageRaise("GageStationError")
     ELSE IF IsNone(folder) \/ IsNone(filename) THEN GageRaise("TypeError")
     ELSE IF ~a.exists THEN GageRaise("IOError")
     ELSE IF ~isinfo THEN GageRaise("UnboundLocalError")
     ELSE IF a.mode # "climatology" THEN GageRaise("NotImplementedError")
     ELSE GageDone(Climatology(a.aggregation, varatts))

\* loadGageStation(basin=..., station=..., aggregation=..., mode=...,
\* folder=..., filename=..., basins=..., basin_list=...), names being the
\* names the module binds
loadGageStation_in(a, names) ==
  IF a.basin.kind = "str" /\ IsNone(a.basins) THEN GageRaise("TypeError")
  ELSE LET basin == IF a.basin.kind = "str" /\ a.basin.name \in The(a.basins)
                      THEN BasinInfoOf(a.basin.name) ELSE a.basin
       IN IF "BasinInfo" \notin names THEN GageRaise("NameError")
          ELSE loadGageStation_rest(a, basin, names)

loadGageStation(a) == loadGageStation_in(a, WSC_names)

\* ------------------------------------------------------------ calls of loadGageStation
Selectors == {None} \cup {Some(s) : s \in {<<"m", "e", "a", "n">>, <<"M", "e", "a", "n">>, <<"S", "T", "D">>, <<"s", "e", "m">>, <<"m", "a", "x">>, <<"M", "I", "N">>, <<"m", "e", "d", "i", "a", "n">>}}
BasinArgs == {NoBasin, BasinName("ARB"), BasinName("XYZ"), BasinInfoOf("ARB")}
BasinsArgs == {None, Some({"ARB"})}
FileArgs == {[folder |-> None, filename |-> None],
             [folder |-> Some("data"), filename |-> Some("Gage_Monthly.csv")]}
Modes == {"climatology", "time-series"}

InitGage ==
  /\ heap = <<>>
  /\ last = Call("start", 0, None, "ok", None)
  /\ \E basin \in BasinArgs, basins \in BasinsArgs, f \in FileArgs,
        aggregation \in Selectors, mode \in Modes, exists \in BOOLEAN :
       built = Some([basin |-> basin, basins |-> basins, station |-> None,
                     folder |-> f.folder, filename |-> f.filename,
                     aggregation |-> aggregation, mode |-> mode, exists |-> exists])

LoadGageStation ==
  LET r == loadGageStation(The(built))
  IN /\ last.op = "start"
     /\ last' = Call("loadGageStation", 0, None, r.err, r.ret)
     /\ UNCHANGED <<heap, built>>

NextGage == LoadGageStation

SpecGage == InitGage /\ [][NextGage]_vars

\* ------------------------------------------------------------ masked payloads on the fixture
\* The Variable of the fixture, built with or without a payload and a mask,
\* then loaded with plain and masked payloads, with and without a mask
\* argument, and unloaded, in any order.
InitMask ==
  \E data \in {None} \cup {Some(p) : p \in Payloads}, mask \in BOOLEAN :
    LET h == OneAxis(OneAxis(<<>>, [name |-> "x", length |-> 0, coord |-> None]),
                     [name |-> "y", length |-> 0, coord |-> None])
    IN SetUp(h, data,
             Variable_init(NewObj(h, "Variable"), NewId(h), VarName, VarUnits,
                           [kind |-> "objs", v |-> AxesFor(data)], data, mask, None, None))

MaskLoaded(r) ==
  /\ heap' = r.h
  /\ last' = Call("load", Var, None, r.err, None)
  /\ UNCHANGED built

\* var.load(data, mask=mask)
MaskLoad ==
  \E data \in Payloads, mask \in BOOLEAN : MaskLoaded(load(heap, Var, data, mask))

\* var.unload()
MaskUnload ==
  /\ heap' = unload(heap, Var).h
  /\ last' = Call("unload", Var, None, "ok", None)
  /\ UNCHANGED built

NextMask == MaskLoad \/ MaskUnload

SpecMask == InitMask /\ [][NextMask]_vars

\* ------------------------------------------------------------ error-free histories
\* The same calls as in Spec, keeping only those that return without raising:
\* the states reached are those a program reaches when no call has failed.
\* Variable(...) without axes always raises, so it makes no step here.
Completed == last'.err = "ok"

NextOk ==
  \/ NewAxis /\ Completed
  \/ NewVariable /\ Completed
  \/ NewVariableNames /\ Completed
  \/ Load /\ Completed
  \/ Unload /\ Completed
  \/ UpdateCoord /\ Completed
  \/ UpdateLength /\ Completed

SpecOk == Init /\ [][NextOk]_vars

\* ============================================================ C1
\* The payload of an object that has one loaded, and the length axis i reports.
Payload(h, v) == The(h[v].data_array)
Consistent(h, v) ==
  /\ ~IsNone(h[v].data_array)
  /\ Len(h[v].axes) = Len(Payload(h, v).shape)
  /\ \A i \in 1..Len(h[v].axes) : Axis_len(h, h[v].axes[i]) = Payload(h, v).shape[i]

\* C1: in every reachable state, every Variable that has a payload loaded has
\* as many axes as the payload has dimensions, and axis i reports the
\* payload's size along dimension i.
C1_PayloadMatchesAxes ==
  \A v \in DOMAIN heap : heap[v].data => Consistent(heap, v)

\* ============================================================ C2
\* The payload the fixture's Variable was built with.
P == The(The(built).data)

\* C2: for a Variable built with payload P over axes A, unload() followed by
\* load(P) succeeds and leaves the Variable with the loaded flag set, the
\* shape it was built with, and a payload element-wise equal to P.
C2_UnloadLoadRestores ==
  (~IsNone(built) /\ The(built).trail = <<"unload", "load">> /\ last.op = "load")
    => /\ last.err = "ok"
       /\ heap[Var].data
       /\ heap[Var].shape = Some(P.shape)
       /\ ~IsNone(heap[Var].data_array)
       /\ The(heap[Var].data_array).shape = P.shape
       /\ \A i \in 1..Prod(P.shape) : The(heap[Var].data_array).flat[i] = P.flat[i]

C2_Witness ==
  /\ ~IsNone(built)
  /\ The(built).trail = <<"unload", "load">>
  /\ last.op = "load"
  /\ Len(P.shape) = MaxNdim
  /\ heap[Var].axes = <<2, 1>>
  /\ heap[Var].data

\* ============================================================ C3
\* The last four calls on the fixture were += c, -= c, *= c, /= c, in this
\* order and on a loaded Variable; Original is the payload before the first.
Tr == The(built).trail
RoundTrip(c) ==
  /\ Len(Tr) >= 4
  /\ [i \in 1..4 |-> Tr[Len(Tr) - 4 + i].op] = <<"iadd", "isub", "imul", "idiv">>
  /\ \A i \in 1..4 : Tr[Len(Tr) - 4 + i].c = c
  /\ ~IsNone(Tr[Len(Tr) - 3].before)
Original == The(Tr[Len(Tr) - 3].before)
InRange(x) == Int8.lo <= x /\ x <= Int8.hi

Written == The(last'.arg)
PlotNames == {"plot", "plotComments"}
StoredIn(mapping, name, value) == name \in DOMAIN mapping /\ mapping[name] = value

\* C4 (as stated): writing a value to a name that is not a declared instance
\* field makes a read of that name return the value; the value is stored in
\* plotatts when the name starts with 'plot' and in atts otherwise.
C4_WriteThenRead ==
  [][(last'.op = "setattr" /\ Written.name \notin Fields("Variable"))
       => /\ getattr(heap', Var, Written.name) = Value(Plain(Written.value))
          /\ IF Written.name \in PlotNames
               THEN StoredIn(heap'[Var].plotatts, Written.name, Written.value)
               ELSE StoredIn(heap'[Var].atts, Written.name, Written.value)]_vars

\* C4 (amended): writing a value to a name that is not a key of the instance
\* dictionary (a declared field or the name of an axis) stores it in atts if
\* the name is a key of atts already, else in plotatts if it is a key of
\* plotatts already, else in plotatts when the name starts with 'plot' and in
\* atts otherwise; a read of the name returns the value unless the name is
\* that of a method of the class.
C4_WriteThenReadByKey ==
  [][(last'.op = "setattr" /\ Written.name \notin InstanceKeys(heap, Var))
       => /\ Written.name \notin ClassAttrs("Variable")
               => getattr(heap', Var, Written.name) = Value(Plain(Written.value))
          /\ IF Written.name \in DOMAIN heap[Var].atts
               THEN StoredIn(heap'[Var].atts, Written.name, Written.value)
                    /\ heap'[Var].plotatts = heap[Var].plotatts
             ELSE IF Written.name \in DOMAIN heap[Var].plotatts \/ Written.name \in PlotNames
               THEN StoredIn(heap'[Var].plotatts, Written.name, Written.value)
                    /\ heap'[Var].atts = heap[Var].atts
             ELSE StoredIn(heap'[Var].atts, Written.name, Written.value)
                  /\ heap'[Var].plotatts = heap[Var].plotatts]_vars

C4_Witness ==
  /\ ~IsNone(built)
  /\ last.op = "setattr"
  /\ The(last.arg).name = "plotComments"
  /\ StoredIn(heap[Var].plotatts, "plotComments", Text)
  /\ StoredIn(heap[Var].atts, "Comments", Text)
  /\ "plotComments" \notin DOMAIN heap[Var].atts
  /\ "Comments" \notin DOMAIN heap[Var].plotatts

\* ============================================================ C5
IsVariable(h, v) == v \in DOMAIN h /\ h[v].cls = "Variable"

\* The shape of the payload a load call was given: load records it first.
Given(h, v) == The(h[v].shape)

\* C5 (as claimed): load on a Variable fails whenever the number of axes
\* differs from the payload's dimensionality, or some axis has a fixed length,
\* from a loaded coordinate vector or from a declared non-zero length, that
\* differs from the payload's size along that dimension.
C5_LoadFailsOnFixedLength ==
  [][(/\ last'.op = "load"
      /\ IsVariable(heap, last'.self)
      /\ \/ Len(heap[last'.self].axes) # Len(Given(heap', last'.self))
         \/ \E i \in 1..Min(Len(heap[last'.self].axes), Len(Given(heap', last'.self))) :
              /\ heap[heap[last'.self].axes[i]].data \/ Axis_len(heap, heap[last'.self].axes[i]) # 0
              /\ Axis_len(heap, heap[last'.self].axes[i]) # Given(heap', last'.self)[i])
     => last'.err # "ok"]_vars

\* The first dimension an Axis that has a payload loaded recorded for it
\* differs from n (or it recorded none).
LoadedOtherThan(h, ax, n) ==
  /\ h[ax].data
  /\ Len(The(h[ax].shape)) > 0 => The(h[ax].shape)[1] # n

\* C5 (amended): load on a Variable fails whenever the number of axes differs
\* from the payload's dimensionality, or some axis has a payload loaded whose
\* recorded first dimension differs from the payload's size along that
\* dimension.
C5_LoadFailsOnLoadedAxis ==
  [][(/\ last'.op = "load"
      /\ IsVariable(heap, last'.self)
      /\ \/ Len(heap[last'.self].axes) # Len(Given(heap', last'.self))
         \/ \E i \in 1..Min(Len(heap[last'.self].axes), Len(Given(heap', last'.self))) :
              LoadedOtherThan(heap, heap[last'.self].axes[i], Given(heap', last'.self)[i]))
     => last'.err # "ok"]_vars

\* A load on a Variable with the right number of axes has just failed on an
\* axis that holds a coordinate vector of another length.
C5_Witness ==
  /\ last.op = "load"
  /\ IsVariable(heap, last.self)
  /\ last.err = "AssertionError"
  /\ Len(heap[last.self].axes) = Len(Given(heap, last.self))
  /\ \E i \in 1..Len(heap[last.self].axes) :
       /\ ~IsNone(heap[heap[last.self].axes[i]].coord)
       /\ LoadedOtherThan(heap, heap[last.self].axes[i], Given(heap, last.self)[i])

\* ============================================================ C6
\* C6: a load call that fails leaves the payload, the loaded flag, the shape
\* and dtype of the Variable and the stored length of each of its axes as
\* they were before the call.
LoadState(h, v) ==
  [data_array |-> h[v].data_array, data |-> h[v].data, shape |-> h[v].shape,
   dtype |-> h[v].dtype, lens |-> [i \in 1..Len(h[v].axes) |-> Axis_len(h, h[v].axes[i])]]

C6_FailedLoadIsAtomic ==
  [][(last'.op = "load" /\ last'.err # "ok")
     => LoadState(heap', last'.self) = LoadState(heap, last'.self)]_vars

\* ============================================================ C7
\* C7: each of +=, -=, *=, /= on a Variable with no payload loaded fails with
\* DataError and changes nothing: the payload stays absent, the loaded flag
\* false, the shape and the attributes as they were; also after an unload
\* that followed a successful load.
C7_UnloadedArithmeticFails ==
  [][(last'.op \in {"iadd", "isub", "imul", "idiv"} /\ ~heap[Var].data)
       => /\ last'.err = "DataError"
          /\ heap' = heap
          /\ IsNone(heap'[Var].data_array)
          /\ ~heap'[Var].data]_vars

C7_Witness ==
  /\ ~IsNone(built)
  /\ Len(Tr) >= 2
  /\ Tr[Len(Tr) - 1].op = "unload"
  /\ ~IsNone(Tr[Len(Tr) - 1].before)
  /\ Tr[Len(Tr)].op = "imul"
  /\ last.op = "imul"
  /\ last.err = "DataError"
  /\ ~IsNone(heap[Var].shape)
  /\ ~heap[Var].data

\* ============================================================ C8
\* C8: constructing a Variable with axes given as bare names succeeds and
\* yields one synthesized Axis per name, in order; when a payload is given the
\* Variable is loaded and each synthesized axis has the length of the
\* payload's dimension.
C8_BareNames ==
  last.op = "VariableNames" =>
    /\ last.err = "ok"
    /\ Len(heap[last.self].axes) = Len(last.arg.names)
    /\ \A i \in 1..Len(last.arg.names) :
         /\ heap[heap[last.self].axes[i]].cls = "Axis"
         /\ heap[heap[last.self].axes[i]].name = last.arg.names[i]
    /\ ~IsNone(last.arg.data) =>
         /\ heap[last.self].data
         /\ Consistent(heap, last.self)
         /\ Payload(heap, last.self) = The(last.arg.data)

\* ============================================================ C9
\* The positions of the axes tuple at which the argument of a query stands:
\* the object itself, or an axis of the given name.
Positions(axis) ==
  {i \in 1..Len(heap[Var].axes) :
     IF axis.kind = "obj" THEN heap[Var].axes[i] = axis.obj
     ELSE heap[heap[Var].axes[i]].name = axis.name}

\* The axes of the tuple that the argument of a query denotes.
Denoted(axis) == {heap[Var].axes[i] : i \in Positions(axis)}

Largest(S) == CHOOSE i \in S : \A j \in S : j <= i

\* C9 (as stated): for every Axis used to build a Variable the membership
\* test, by object or by name, is true, axisIndex returns that axis's position
\* in the axes tuple, and len(axis) is the length the axis was constructed
\* with; for a name or object not among the axes the membership test is false
\* and axisIndex returns None.
C9_AxisQueries ==
  ~IsNone(built) =>
    /\ last.op = "contains" => last.ret = (Positions(last.arg) # {})
    /\ last.op = "axisIndex" =>
         IF Positions(last.arg) = {} THEN IsNone(last.ret)
         ELSE /\ ~IsNone(last.ret)
              /\ \A a \in Denoted(last.arg) : heap[Var].axes[The(last.ret) + 1] = a
    /\ (last.op = "len" /\ Positions(last.arg) # {})
         => last.ret = The(built).lens[last.arg.obj]

\* C9 (amended): the membership test is as stated; axisIndex returns the
\* first position at which the axis, or an axis of the given name, stands;
\* len(axis) is the constructed length when the axis holds a coordinate
\* vector or the Variable was built without a payload, and otherwise the
\* payload's size along the last position at which the axis stands.
C9_AxisQueriesFirst ==
  ~IsNone(built) =>
    /\ last.op = "contains" => last.ret = (Positions(last.arg) # {})
    /\ last.op = "axisIndex" =>
         IF Positions(last.arg) = {} THEN IsNone(last.ret)
         ELSE /\ ~IsNone(last.ret)
              /\ The(last.ret) + 1 \in Positions(last.arg)
              /\ \A i \in Positions(last.arg) : The(last.ret) + 1 <= i
    /\ (last.op = "len" /\ Positions(last.arg) # {})
         => last.ret = IF heap[last.arg.obj].data \/ IsNone(The(built).data)
                         THEN The(built).lens[last.arg.obj]
                         ELSE P.shape[Largest(Positions(last.arg))]

C9_Witness ==
  /\ ~IsNone(built)
  /\ last.op = "len"
  /\ Positions(last.arg) = {1, 2}
  /\ last.ret # The(built).lens[last.arg.obj]
  /\ last.ret = P.shape[2]
  /\ P.shape[1] # P.shape[2]

\* ============================================================ C10
\* The index of the last read, and the payload D it was made on.
Idx == The(last.arg)
D == The(heap[Var].data_array)
OnlyIntsAndSlices(idx) ==
  idx.kind = "tuple" /\ \A k \in 1..Len(idx.comps) : idx.comps[k].kind \in {"int", "slice"}
ValidFor(idx, shape) ==
  /\ Len(idx.comps) <= Len(shape)
  /\ \A k \in 1..Len(idx.comps) :
       idx.comps[k].kind = "int"
         => (0 - shape[k] <= The(idx.comps[k].start) /\ The(idx.comps[k].start) < shape[k])

\* The positions a slice selects along a dimension of length n, as a set:
\* those reached from the first one in steps, short of the stop.
From(sl, n) ==
  IF IsNone(sl.step)
    THEN (IF IsNone(sl.start) THEN 0
          ELSE IF The(sl.start) < 0 THEN Max(The(sl.start) + n, 0) ELSE The(sl.start))
  ELSE (IF IsNone(sl.start) THEN n - 1
        ELSE IF The(sl.start) < 0 THEN The(sl.start) + n ELSE Min(The(sl.start), n - 1))
Until(sl, n) ==
  IF IsNone(sl.step)
    THEN (IF IsNone(sl.stop) THEN n
          ELSE IF The(sl.stop) < 0 THEN The(sl.stop) + n ELSE The(sl.stop))
  ELSE (IF IsNone(sl.stop) THEN 0 - 1
        ELSE IF The(sl.stop) < 0 THEN The(sl.stop) + n ELSE The(sl.stop))
Picked(sl, n) ==
  IF IsNone(sl.step) THEN {i \in 0..(n - 1) : From(sl, n) <= i /\ i < Until(sl, n)}
  ELSE {i \in 0..(n - 1) : Until(sl, n) < i /\ i <= From(sl, n)}

\* The t-th position (from 0) a slice selects: ascending, or descending for a
\* negative step.
Nth(sl, n, t) ==
  CHOOSE i \in Picked(sl, n) :
    Cardinality({j \in Picked(sl, n) : IF IsNone(sl.step) THEN j < i ELSE j > i}) = t

\* D[idx], element by element: the shape counts what the slices select, and
\* the element at a position of the result is the element of D at the
\* position that the integers fix and the slices select.
Whole == SliceOf(None, None, None)
CompAt(idx, k) == IF k <= Len(idx.comps) THEN idx.comps[k] ELSE Whole
SliceDims(idx, shape) == {k \in 1..Len(shape) : CompAt(idx, k).kind = "slice"}
Rank(idx, shape, k) == Cardinality({j \in SliceDims(idx, shape) : j <= k})
ShapeOf(idx, shape) ==
  [d \in 1..Cardinality(SliceDims(idx, shape)) |->
     LET k == CHOOSE j \in SliceDims(idx, shape) : Rank(idx, shape, j) = d
     IN Cardinality(Picked(CompAt(idx, k), shape[k]))]
Unravel(p, shape, d) == ((p - 1) \div Prod(SubSeq(shape, d + 1, Len(shape)))) % shape[d]
SourceAt(idx, shape, res, p, k) ==
  IF CompAt(idx, k).kind = "int"
    THEN (IF The(CompAt(idx, k).start) < 0 THEN The(CompAt(idx, k).start) + shape[k]
          ELSE The(CompAt(idx, k).start))
  ELSE Nth(CompAt(idx, k), shape[k], Unravel(p, res, Rank(idx, shape, k)))
RECURSIVE Offset(_, _, _, _, _)
Offset(idx, shape, res, p, k) ==
  IF k > Len(shape) THEN 0
  ELSE SourceAt(idx, shape, res, p, k) * Prod(SubSeq(shape, k + 1, Len(shape)))
       + Offset(idx, shape, res, p, k + 1)
IsSliceOfD(r, idx) ==
  /\ r.shape = ShapeOf(idx, D.shape)
  /\ Len(r.flat) = Prod(r.shape)
  /\ \A p \in 1..Prod(r.shape) : r.flat[p] = D.flat[Offset(idx, D.shape, r.shape, p, 1) + 1]

\* C10: with a payload D loaded and an index of integers and slices that is
\* valid for D, var[idx] returns exactly D[idx] and the Variable stays as it
\* is; with no payload loaded the same index fails with IndexError.  (The
\* slices in use step by 1 or by -1.)
GetItemIsPayloadSlice ==
  (~IsNone(built) /\ last.op = "getitem" /\ OnlyIntsAndSlices(Idx)) =>
    IF heap[Var].data
      THEN ValidFor(Idx, D.shape) =>
             /\ last.err = "ok"
             /\ ~IsNone(The(last.ret).arr)
             /\ IsSliceOfD(The(The(last.ret).arr), Idx)
    ELSE last.err = "IndexError"

C11_Label(i, p) ==
  IF p > 0 THEN <<Digits[i + 1]>> \o [k \in 1..p |-> "0"]
  ELSE IF p < 0 THEN <<"0", ".">> \o Times("0", 0 - p - 1) \o <<Digits[i + 1]>>
  ELSE <<Digits[i + 1]>>

C11_Supplied == {The(last.arg).ticks.v[k].v : k \in 1..Len(The(last.arg).ticks.v)}

\* C11: for every tick list logTicks accepts and every integer power p the
\* result has 8 elements, position i-2 (counted from 0) holds the label of
\* each supplied tick i (digit and p zeros, "0." with -p-1 zeros and the
\* digit, or the bare digit), and every other position is the empty string.
C11_ResultFormat ==
  (/\ last.op = "logTicks"
   /\ last.err = "ok"
   /\ The(last.arg).base.kind = "None")
  => /\ Len(last.ret) = 8
     /\ \A i \in C11_Supplied :
          /\ i \in 0..9
          /\ i - 2 \in 0..7
          /\ last.ret[i - 2 + 1] = C11_Label(i, The(last.arg).power.v)
     /\ \A k \in 0..7 : (k + 2) \notin C11_Supplied => last.ret[k + 1] = <<>>

\* ============================================================ C12
C12_AllInts ==
  /\ The(last.arg).ticks.kind = "list"
  /\ \A k \in 1..Len(The(last.arg).ticks.v) : The(last.arg).ticks.v[k].kind = "int"
  /\ The(last.arg).base.kind # "other"
  /\ The(last.arg).base.kind = "None" => The(last.arg).power.kind = "int"

\* C12: logTicks accepts a list of integer ticks exactly when every tick is
\* one of 2..9: such a list is accepted, and a list holding an integer
\* outside 2..9 makes the call fail.
C12_AcceptsTwoToNine ==
  (last.op = "logTicks" /\ C12_AllInts)
  => (last.err = "ok" <=>
        \A k \in 1..Len(The(last.arg).ticks.v) : The(last.arg).ticks.v[k].v \in 2..9)

\* ============================================================ C15
\* The name and the units getPlotValues resolves for the variable of the call.
C15_Name ==
  LET var == The(built).var
  IN IF IsNone(var.plot) THEN var.atts.name ELSE The(var.plot).name
C15_Units ==
  LET var == The(built).var
  IN IF IsNone(var.plot) THEN var.atts.units ELSE The(var.plot).units
C15_UnitsDiffer ==
  ~IsNone(The(built).checkunits) /\ The(The(built).checkunits) # C15_Units
C15_NameDiffers ==
  ~IsNone(The(built).checkname) /\ The(The(built).checkname) # C15_Name
C15_Returns ==
  last.err = "ok" => (The(last.ret).units = C15_Units /\ The(last.ret).name = C15_Name)

\* C15 as stated: getPlotValues fails with the mismatch error whenever
\* checkname is supplied and differs from the resolved name or checkunits is
\* supplied and differs from the resolved units, for variables with and
\* without plot attributes; otherwise it returns the resolved units and name.
C15_MismatchFails ==
  last.op = "getPlotValues"
  => /\ (C15_NameDiffers \/ C15_UnitsDiffer) => last.err = "VariableError"
     /\ ~(C15_NameDiffers \/ C15_UnitsDiffer) => last.err = "ok"
     /\ C15_Returns

\* C15 amended: the name is checked only for a variable that carries plot
\* attributes; the units are checked for every variable.  The call fails with
\* the mismatch error exactly when checkunits differs from the resolved units
\* or the variable has plot attributes and checkname differs from their name;
\* otherwise it returns the resolved units and name.
C15_MismatchFailsWithPlot ==
  last.op = "getPlotValues"
  => /\ last.err = "VariableError"
          <=> \/ C15_UnitsDiffer
              \/ ~IsNone(The(built).var.plot) /\ C15_NameDiffers
     /\ last.err \in {"ok", "VariableError"}
     /\ C15_Returns

\* A variable without plot attributes, asked for under another name, is
\* returned under its own.
C15_Witness ==
  /\ last.op = "getPlotValues"
  /\ IsNone(The(built).var.plot)
  /\ The(built).checkname = Some("Temp")
  /\ The(built).checkunits = Some("K")
  /\ last.err = "ok"
  /\ The(last.ret).name = "T2"
  /\ The(last.ret).units = "K"

\* ============================================================ C13
C13_Conds == The(built).kwcond
C13_Kept == {The(last.ret).datasets[1].station[k] :
               k \in 1..Len(The(last.ret).datasets[1].station)}

\* Whether station i of the dataset passes condition c, as the description
\* of the conditions has it.
C13_Passes(c, i) ==
  LET ds == The(built).dataset
      asked == IF c.val.kind = "bool" THEN c.val.b
               ELSE IF c.val.kind = "num" THEN c.val.n # 0 ELSE TRUE
  IN CASE c.key \in MinAreaKeys -> ds.shp_area[i] >= c.val.n * 1000000
       [] c.key \in MaxAreaKeys -> ds.shp_area[i] <= c.val.n * 1000000
       [] c.key \in EnclKeys -> ds.shp_encl[i] = asked
       [] c.key \in FullKeys -> ds.shp_full[i] = asked
       [] c.key \in EmptyKeys -> ds.shp_empty[i] = asked

C13_AreaBetween ==
  {i \in 1..6 : /\ The(built).dataset.shp_area[i] >= 100000000
                /\ The(built).dataset.shp_area[i] <= 500000000}

\* C13: the predicate selectStations builds accepts a station exactly when
\* every supplied condition passes for it (min_area=a: area >= a*1e6,
\* max_area=b: area <= b*1e6, a boolean condition: the flag equals the
\* requested boolean); min_area=100 with max_area=500 keeps exactly the
\* stations with area in [100e6, 500e6]; with no conditions no predicate is
\* applied.
C13_PredicateIsConjunction ==
  (last.op = "selectStations" /\ last.err = "ok")
  => /\ C13_Kept = {i \in 1..6 : \A k \in 1..Len(C13_Conds) : C13_Passes(C13_Conds[k], i)}
     /\ IsNone(The(last.ret).testFct) <=> Len(C13_Conds) = 0
     /\ (/\ Len(C13_Conds) = 2
         /\ C13_Conds[1] = [key |-> <<"m", "i", "n", "_", "a", "r", "e", "a">>, val |-> NumVal(100)]
         /\ C13_Conds[2] = [key |-> <<"m", "a", "x", "_", "a", "r", "e", "a">>, val |-> NumVal(500)])
        => C13_Kept = C13_AreaBetween

\* selectStations(min_area=100, max_area=500) has kept stations 2, 3 and 4
\* (100e6, 300e6 and 500e6 m^2) of the six.
C13_Witness ==
  /\ last.op = "selectStations"
  /\ last.err = "ok"
  /\ Len(C13_Conds) = 2
  /\ C13_Conds[1] = [key |-> <<"m", "i", "n", "_", "a", "r", "e", "a">>, val |-> NumVal(100)]
  /\ C13_Conds[2] = [key |-> <<"m", "a", "x", "_", "a", "r", "e", "a">>, val |-> NumVal(500)]
  /\ The(last.ret).datasets[1].station = <<2, 3, 4>>
  /\ ~IsNone(The(last.ret).testFct)

\* ============================================================ C14
\* The test the description gives a key.
C14_Test(key) ==
  CASE key \in EnclKeys -> "test_encl"
    [] key \in FullKeys -> "test_full"
    [] key \in EmptyKeys -> "test_empty"
    [] key \in MinAreaKeys -> "test_mina"
    [] key \in MaxAreaKeys -> "test_maxa"
    [] OTHER -> "unknown"

C14_Conds == The(built).kwcond
C14_Unknown == \E k \in 1..Len(C14_Conds) : C14_Conds[k].key \in OtherKeys
C14_AreasAreNumbers ==
  \A k \in 1..Len(C14_Conds) :
    C14_Conds[k].key \in MinAreaKeys \cup MaxAreaKeys => C14_Conds[k].val.kind = "num"

C17_Name == heap[1].name

\* C17: after construction meta_file is set, to <name>_Metadata.csv, if and
\* only if that file is in the folder, and monthly_file is set, to
\* <name>_Monthly.csv, if and only if that file is in the folder, whichever
\* of the two files exist.
C17_FilesIndependent ==
  (last.op = "GageStation" /\ last.err = "ok")
  => /\ heap[1].meta_file =
          IF (C17_Name \o meta_ext) \in The(built).files
            THEN Some(C17_Name \o meta_ext) ELSE None
     /\ heap[1].monthly_file =
          IF (C17_Name \o monthly_ext) \in The(built).files
            THEN Some(C17_Name \o monthly_ext) ELSE None

\* ============================================================ C16
C16_Names == {last.ret[k].name : k \in 1..Len(last.ret)}
C16_OfUnits(u) == {k \in 1..Len(last.ret) : last.ret[k].units = u}

\* A call that names a basin of the catalogue whose station files exist, in
\* climatology mode, with no selector or one of the five.
C16_Loadable ==
  /\ last.op = "loadGageStation"
  /\ The(built).basin.kind = "BasinInfo"
  /\ The(built).exists
  /\ The(built).mode = "climatology"
  /\ The(built).aggregation \in
       {None} \cup {Some(s) : s \in {<<"m", "e", "a", "n">>, <<"M", "e", "a", "n">>, <<"S", "T", "D">>, <<"s", "e", "m">>, <<"m", "a", "x">>, <<"M", "I", "N">>}}

\* C16: the dataset loadGageStation returns in climatology mode holds, for
\* a selector equal to 'mean', 'std', 'sem', 'max' or 'min' in any case,
\* exactly one discharge-type and one runoff-type variable, named
\* 'discharge' and 'runoff', and for no selector all five pairs, ten
\* variables under different names.
C16_VariablesBySelector ==
  C16_Loadable
  => /\ last.err = "ok"
     /\ ~IsNone(The(built).aggregation)
          => /\ Len(last.ret) = 2
             /\ C16_Names = {"discharge", "runoff"}
             /\ Cardinality(C16_OfUnits("kg/s")) = 1
             /\ Cardinality(C16_OfUnits("kg/m^2/s")) = 1
     /\ IsNone(The(built).aggregation)
          => /\ Len(last.ret) = 10
             /\ Cardinality(C16_Names) = 10
             /\ Cardinality(C16_OfUnits("kg/s")) = 5
             /\ Cardinality(C16_OfUnits("kg/m^2/s")) = 5

\* ============================================================ C18
\* C18: updateLength(n) on an Axis with a coordinate vector loaded never
\* changes the Axis, succeeds iff n is the length of the coordinate vector
\* and otherwise fails with the incompatible-length error; on an Axis with
\* no coordinate vector loaded it always succeeds and the stored length
\* becomes n.
C18_UpdateLengthChecksOrRecords ==
  [][last'.op = "updateLength"
     => IF ~IsNone(heap[last'.self].coord)
          THEN /\ heap' = heap
               /\ last'.err = "ok"
                    <=> last'.arg.length = The(heap[last'.self].coord).shape[1]
               /\ last'.err \in {"ok", "AssertionError"}
          ELSE /\ last'.err = "ok"
               /\ heap'[last'.self].len = last'.arg.length]_vars

\* ============================================================ C19
\* The step is obj.unload(), or axis.updateCoord(None).
C19_Unloads ==
  \/ last'.op = "unload"
  \/ last'.op = "updateCoord" /\ IsNone(last'.arg.coord)

\* C19: unload changes only the payload and the loaded flag and, for an
\* Axis, the coord vector: shape, dtype, axes, attributes and plot attributes
\* (and every other object) are as before, and after Axis.unload() or
\* Axis.updateCoord(None) len(axis) is still the length of the coordinate
\* vector that was loaded before.
C19_UnloadKeepsTheRest ==
  [][C19_Unloads
     => /\ last'.err = "ok"
        /\ \A o \in DOMAIN heap : o # last'.self => heap'[o] = heap[o]
        /\ DOMAIN heap' = DOMAIN heap
        /\ IsNone(heap'[last'.self].data_array)
        /\ ~heap'[last'.self].data
        /\ \A f \in DOMAIN heap[last'.self] \ {"data_array", "data", "coord"} :
             heap'[last'.self][f] = heap[last'.self][f]
        /\ heap[last'.self].cls = "Axis"
             => /\ IsNone(heap'[last'.self].coord)
                /\ Axis_len(heap', last'.self) = Axis_len(heap, last'.self)
                /\ ~IsNone(heap[last'.self].coord)
                     => Axis_len(heap', last'.self) = The(heap[last'.self].coord).shape[1]]_vars

\* An Axis whose coordinate vector of MaxDim values has been unloaded still
\* has that length and shape.
C19_Witness ==
  /\ last.op \in {"unload", "updateCoord"}
  /\ last.err = "ok"
  /\ heap[last.self].cls = "Axis"
  /\ IsNone(heap[last.self].coord)
  /\ ~heap[last.self].data
  /\ Axis_len(heap, last.self) = MaxDim
  /\ heap[last.self].shape = Some(<<MaxDim>>)

\* ============================================================ C20
\* C20: after any sequence of load and unload calls on a Variable, whenever
\* a payload is loaded the masked flag is true if and only if the payload
\* attached is a masked array.
C20_MaskedFlagFollowsPayload ==
  heap[Var].data => (heap[Var].masked <=> The(heap[Var].data_array).ma)

\* ============================================================ C21
\* C21: in every state reached by calls that all completed without error,
\* every Axis has a coordinate vector exactly when its loaded flag is true,
\* and then the vector is the Axis's own payload and len(axis) is the number
\* of its elements.
C21_CoordFollowsLoaded ==
  \A a \in AxisIds(heap) :
    /\ ~IsNone(heap[a].coord) <=> heap[a].data
    /\ ~IsNone(heap[a].coord) =>
         /\ heap[a].coord = heap[a].data_array
         /\ Len(The(heap[a].coord).shape) = 1
         /\ Axis_len(heap, a) = The(heap[a].coord).shape[1]

\* A Variable over a loaded Axis of MaxDim elements has just been loaded, its
\* load having called updateLength on the Axis.
C21_Witness ==
  /\ last.op = "load"
  /\ last.err = "ok"
  /\ last.self \in VarIds(heap)
  /\ heap[last.self].axes # <<>>
  /\ \A i \in 1..Len(heap[last.self].axes) :
       LET a == heap[last.self].axes[i]
       IN /\ heap[a].data
          /\ ~IsNone(heap[a].coord)
          /\ Axis_len(heap, a) = MaxDim

====
